---- MODULE Spec2Model ----
(***************************************************************************)
(* PyFinModeler: the financial-item data model (core/financial_item.py),   *)
(* the statement containers (core/financial_statement.py), the rule-based  *)
(* forecast engine (forecast/forecast_model.py, forecast/forecast_rule.py) *)
(* and the KPI registry (kpi/kpi_manager.py).                              *)
(*                                                                         *)
(* Encodings.                                                              *)
(*  - A period label is the integer 10*YYYY + n: "YYYY" is 10*YYYY and     *)
(*    "YYYYQn" is 10*YYYY + n (n in 1..4).  For four-digit years Python's  *)
(*    string order on labels is the numeric order on these codes ("2023" < *)
(*    "2023Q1" < "2023Q4" < "2024").                                       *)
(*  - A Python dict is the sequence of its <<key, value>> pairs in         *)
(*    iteration (insertion) order.                                         *)
(*  - An optional value is <<>> (None) or <<v>>.                           *)
(*  - A name is the sequence of its characters.                            *)
(*  - Amounts, rates and margins are integers (floats that are exact).     *)
(***************************************************************************)
EXTENDS Integers, Sequences, FiniteSets, TLC

VARIABLES
    item,        \* the FinancialItem under test: [name, item_type, historical, forecasted];
                 \* item_type is the name of a FinancialItemType member
    ret,         \* what the last get_value call returned (optional value)
    last,        \* the last FinancialItem call and its arguments
    err,         \* the exception the last FinancialItem call raised ("" when none)
    steps,       \* number of FinancialItem calls made so far
    company,     \* Company: the five statements, each a map name -> FinancialItem
    model,       \* ForecastModel configuration [periods, frequency]; ScenarioModel attributes
    model_kpis,  \* ForecastModel.kpi_manager.kpis: map KPI name -> formula
    kerr,        \* the exception the last KPI registry call raised ("" when none)
    rules,       \* ForecastModel.rules
    pc,          \* position of run_forecast: "idle", "running", "done", "failed"
    idx,         \* index in rules of the rule run_forecast applies next
    applied,     \* the rules run_forecast has called _apply_rule on, in call order
    trace,       \* trace[j]: the company right after the j-th _apply_rule call returned or raised
    start,       \* the company when run_forecast (or save_to_json) was called
    ferr,        \* the exception that ended run_forecast ("" when none)
    ident,       \* Company identity: [name, ticker, currency, description]
    company_kpis, \* Company.kpi_manager.kpis: map KPI name -> formula or callable
    call,        \* the last call made on the company's services, with what it returned or raised
    doc,         \* the document written by the last save_to_json (optional)
    loaded       \* the Company that load_from_json filled from doc (optional)

vars == <<item, ret, last, err, steps, company, model, model_kpis, kerr, rules, pc, idx,
          applied, trace, start, ferr, ident, company_kpis, call,
          doc, loaded>>

itemVars == <<item, ret, last, err, steps>>
modelVars == <<company, model, model_kpis, kerr, rules, pc, idx, applied, trace, start,
               ferr>>
serviceVars == <<ident, company_kpis, call, doc, loaded>>

----------------------------------------------------------------------------
(* Optional values *)

None == <<>>
Some(x) == <<x>>

\* Python truthiness of an optional number, as used by `a or b`.
Truthy(o) == o # None /\ o[1] # 0

----------------------------------------------------------------------------
(* Period labels *)

\* str(year)
YearLabel(year) == year * 10

\* f"{year}Q{q}"
QuarterLabel(year, q) == year * 10 + q

\* "Q" in period
HasQ(period) == period % 10 # 0

\* int(period[:4])
YearPrefix(period) == period \div 10

\* ForecastModel._parse_period
ParsePeriod(period) ==
    IF HasQ(period) THEN <<period \div 10, period % 10>> ELSE <<period \div 10, 0>>

----------------------------------------------------------------------------
(* Python dicts as sequences of <<key, value>> pairs *)

Keys(d) == {d[i][1] : i \in DOMAIN d}

\* d.get(k)
DictGet(d, k) ==
    IF \E i \in DOMAIN d : d[i][1] = k
    THEN Some(d[CHOOSE i \in DOMAIN d : d[i][1] = k][2])
    ELSE None

\* d[k] = v : an existing key keeps its position, a new key goes last
DictSet(d, k, v) ==
    IF \E i \in DOMAIN d : d[i][1] = k
    THEN [i \in DOMAIN d |-> IF d[i][1] = k THEN <<k, v>> ELSE d[i]]
    ELSE Append(d, <<k, v>>)

\* dict(sorted(d.items()))
DictSorted(d) == SortSeq(d, LAMBDA a, b : a[1] < b[1])

\* sorted(d.keys())[-1], for a non-empty d
LastKey(d) == CHOOSE k \in Keys(d) : \A j \in Keys(d) : j <= k

\* sorted(S) for a set S of period labels
RECURSIVE SortedSeq(_)
SortedSeq(S) ==
    IF S = {} THEN <<>>
    ELSE LET m == CHOOSE x \in S : \A y \in S : x <= y
         IN  <<m>> \o SortedSeq(S \ {m})

\* {**a, **b}: the keys of a in their order with the values of b winning, then the
\* keys only b has
RECURSIVE DictMerge(_, _)
DictMerge(a, b) == IF b = <<>> THEN a ELSE DictMerge(DictSet(a, b[1][1], b[1][2]), Tail(b))

\* list(d.values())
RECURSIVE SumValues(_)
SumValues(d) == IF d = <<>> THEN 0 ELSE d[1][2] + SumValues(Tail(d))

\* The integer nearest to num / den (den > 0), a tie going to the even integer:
\* round(x, n) on x = num / den counted in units of 10^-n.
RoundHalfEven(num, den) ==
    LET q == num \div den
        r == num % den
    IN  IF 2 * r < den THEN q
        ELSE IF 2 * r > den THEN q + 1
        ELSE IF q % 2 = 0 THEN q ELSE q + 1

\* b ** k for an integer k >= 0
RECURSIVE Pow(_, _)
Pow(b, k) == IF k = 0 THEN 1 ELSE b * Pow(b, k - 1)

\* Exact arithmetic on rationals <<n, d>> (d > 0, lowest terms): the values of float
\* expressions.
RECURSIVE Gcd(_, _)
Gcd(a, b) == IF b = 0 THEN a ELSE Gcd(b, a % b)
Abs(x) == IF x < 0 THEN 0 - x ELSE x
Rat(n, d) ==
    LET g == Gcd(Abs(n), Abs(d))
    IN  IF d < 0 THEN <<(0 - n) \div g, (0 - d) \div g>> ELSE <<n \div g, d \div g>>
RatAdd(x, y) == Rat(x[1] * y[2] + y[1] * x[2], x[2] * y[2])
RatSub(x, y) == Rat(x[1] * y[2] - y[1] * x[2], x[2] * y[2])
RatMul(x, y) == Rat(x[1] * y[1], x[2] * y[2])
\* x / y for y # 0
RatDiv(x, y) == Rat(x[1] * y[2], x[2] * y[1])
\* x ** k for an integer k >= 0
RatPow(x, k) == <<Pow(x[1], k), Pow(x[2], k)>>

----------------------------------------------------------------------------
(* utils/name_sanitizer.py *)

Letters ==
    {"A","B","C","D","E","F","G","H","I","J","K","L","M","N","O","P","Q","R","S","T",
     "U","V","W","X","Y","Z","a","b","c","d","e","f","g","h","i","j","k","l","m","n",
     "o","p","q","r","s","t","u","v","w","x","y","z"}
Digits == {"0","1","2","3","4","5","6","7","8","9"}

\* name.replace(" ", "_").replace("-", "_")
ReplaceSeparators(name) ==
    [i \in DOMAIN name |-> IF name[i] \in {" ", "-"} THEN "_" ELSE name[i]]

\* re.sub(r"[^A-Za-z0-9_]", "", name)
RemoveInvalid(name) == SelectSeq(name, LAMBDA c : c \in Letters \cup Digits \cup {"_"})

sanitize_item_name(name) ==
    LET cleaned == RemoveInvalid(ReplaceSeparators(name))
    IN  IF cleaned # <<>> /\ cleaned[1] \in Digits THEN <<"_">> \o cleaned ELSE cleaned

----------------------------------------------------------------------------
(* core/financial_item.py *)

\* FinancialItem.__init__
NewFinancialItem(name, item_type, historical, forecasted) ==
    [name       |-> sanitize_item_name(name),
     item_type  |-> item_type,
     historical |-> DictSorted(historical),
     forecasted |-> DictSorted(forecasted)]

add_historical(it, period, value) ==
    [it EXCEPT !.historical = DictSorted(DictSet(it.historical, period, value))]

add_forecasted(it, period, value) ==
    [it EXCEPT !.forecasted = DictSorted(DictSet(it.forecasted, period, value))]

\* return self.forecasted.get(period) or self.historical.get(period)
get_value(it, period) ==
    LET f == DictGet(it.forecasted, period)
    IN  IF Truthy(f) THEN f ELSE DictGet(it.historical, period)

\* A faulty variant of StepGrowth: it tests the looked-up values for truthiness
\* instead of testing key membership and `is not None`.
StepGrowthTruthyOnly(growth_rate, growth_schedule, next_period) ==
    IF Truthy(DictGet(growth_schedule, next_period))
    THEN [ok |-> TRUE, growth |-> DictGet(growth_schedule, next_period)[1]]
    ELSE IF Truthy(growth_rate)
    THEN [ok |-> TRUE, growth |-> growth_rate[1]]
    ELSE [ok |-> FALSE, growth |-> 0]

\* The growth of one step of forecast_growth: [ok, growth], ok = FALSE when the code
\* raises "No growth specified.".  growth_rate is optional; growth_schedule is a dict
\* (None and {} are both falsy and behave alike).
StepGrowth(growth_rate, growth_schedule, next_period) ==
    IF growth_schedule # <<>> /\ next_period \in Keys(growth_schedule)
    THEN [ok |-> TRUE, growth |-> DictGet(growth_schedule, next_period)[1]]
    ELSE IF growth_rate # None
    THEN [ok |-> TRUE, growth |-> growth_rate[1]]
    ELSE [ok |-> FALSE, growth |-> 0]

\* A faulty variant of Compound: the growth is applied without the 1 +.
CompoundNoUnit(current_value, growth) == current_value * growth

\* current_value *= (1 + growth)
Compound(current_value, growth) == current_value * (1 + growth)

\* The body of `for i in range(1, periods + 1)`, from step i on.
RECURSIVE GrowthLoop(_, _, _, _, _, _, _, _)
GrowthLoop(it, last_period, current_value, i, periods, growth_rate, growth_schedule, frequency) ==
    IF i > periods THEN [item |-> it, err |-> ""]
    ELSE IF frequency # "Annual" THEN [item |-> it, err |-> "NotImplementedError"]
    ELSE
      LET next_period == YearLabel(YearPrefix(last_period) + i)
          g == StepGrowth(growth_rate, growth_schedule, next_period)
          value == Compound(current_value, g.growth)
      IN  IF ~g.ok THEN [item |-> it, err |-> "ValueError: No growth specified."]
          ELSE GrowthLoop([it EXCEPT !.forecasted = DictSet(it.forecasted, next_period, value)],
                          last_period, value, i + 1, periods, growth_rate, growth_schedule,
                          frequency)

\* A faulty variant of forecast_growth: a call that fails leaves the item as it was.
forecast_growth_all_or_nothing(it, growth_rate, growth_schedule, periods, frequency) ==
    IF it.historical = <<>> THEN [item |-> it, err |-> "ValueError: No historical data"]
    ELSE
      LET last_period == LastKey(it.historical)
          last_value == DictGet(it.historical, last_period)[1]
          res == GrowthLoop(it, last_period, last_value, 1, periods, growth_rate,
                            growth_schedule, frequency)
      IN  IF res.err # "" THEN [item |-> it, err |-> res.err] ELSE res

forecast_growth(it, growth_rate, growth_schedule, periods, frequency) ==
    IF it.historical = <<>> THEN [item |-> it, err |-> "ValueError: No historical data"]
    ELSE
      LET last_period == LastKey(it.historical)
          last_value == DictGet(it.historical, last_period)[1]
      IN  GrowthLoop(it, last_period, last_value, 1, periods, growth_rate, growth_schedule,
                     frequency)

----------------------------------------------------------------------------
(* core/financial_statement.py, core/company.py *)

\* FinancialStatement.__init__: self.items = {}
EmptyStatement == [n \in {} |-> 0]

\* FinancialStatement.add_item: self.items[item.name] = item
add_item(statement, it) ==
    [n \in DOMAIN statement \cup {it.name} |-> IF n = it.name THEN it ELSE statement[n]]

\* FinancialStatement.get_item: self.items.get(item_name)
get_item(statement, item_name) ==
    IF item_name \in DOMAIN statement THEN Some(statement[item_name]) ELSE None

\* Company.__init__: one empty statement of each kind
EmptyCompany ==
    [income_statement |-> EmptyStatement, balance_sheet |-> EmptyStatement,
     cash_flow_statement |-> EmptyStatement, kpi_statement |-> EmptyStatement,
     other_financials_statement |-> EmptyStatement]

----------------------------------------------------------------------------
(* Item lookup across the statements (ForecastModel._find_item and             *)
(* KPIManager._find_item are the same chain), and kpi/kpi_manager.py: the       *)
(* registry and formula KPIs.  A formula is its syntax tree:                    *)
(* [op |-> "var", name], [op |-> "num", value] or                               *)
(* [op |-> "mul" | "add" | "sub", left, right].                                 *)

\* The order in which _find_item (KPIManager and ForecastModel alike) asks the statements.
StatementOrder ==
    <<"income_statement", "balance_sheet", "cash_flow_statement", "kpi_statement",
      "other_financials_statement">>

\* A faulty variant of FindItem: the last statement holding the name wins.
FindItemLastWins(c, name) ==
    LET hits == {i \in DOMAIN StatementOrder : get_item(c[StatementOrder[i]], name) # None}
    IN  IF hits = {} THEN None
        ELSE Some(StatementOrder[CHOOSE i \in hits : \A j \in hits : j <= i])

\* _find_item: the chain `income.get_item(name) or balance.get_item(name) or ...`; a
\* FinancialItem is always truthy.  Returns the statement of the item found, or None.
FindItem(c, name) ==
    LET hits == {i \in DOMAIN StatementOrder : get_item(c[StatementOrder[i]], name) # None}
    IN  IF hits = {} THEN None
        ELSE Some(StatementOrder[CHOOSE i \in hits : \A j \in hits : i <= j])

\* A faulty variant of kpi_add_kpi: a name that exists is given the new definition.
kpi_add_kpi_overwrite(kpis, kpi_name, formula) ==
    [kpis |-> [n \in DOMAIN kpis \cup {kpi_name} |-> IF n = kpi_name THEN formula ELSE kpis[n]],
     err  |-> IF kpi_name \in DOMAIN kpis THEN "ValueError: KPI already exists" ELSE ""]

\* KPIManager.add_kpi: [kpis, err]
kpi_add_kpi(kpis, kpi_name, formula) ==
    IF kpi_name \in DOMAIN kpis
    THEN [kpis |-> kpis, err |-> "ValueError: KPI already exists"]
    ELSE [kpis |-> [n \in DOMAIN kpis \cup {kpi_name} |->
                      IF n = kpi_name THEN formula ELSE kpis[n]],
          err  |-> ""]

\* KPIManager._extract_variables
RECURSIVE ExtractVariables(_)
ExtractVariables(f) ==
    IF f.op = "var" THEN {f.name}
    ELSE IF f.op = "num" THEN {}
    ELSE ExtractVariables(f.left) \cup ExtractVariables(f.right)

\* local_vars[var]: the item's get_value(period), 0 when it has none; a name that is no
\* line item is parsed as a number, which fails for an identifier, and becomes 0.
LocalVar(c, var, period) ==
    LET loc == FindItem(c, var)
    IN  IF loc = None THEN 0
        ELSE LET value == get_value(c[loc[1]][var], period)
             IN  IF value # None THEN value[1] ELSE 0

\* eval(formula, {}, local_vars): [ok, value], ok = FALSE when the evaluation raises
\* ZeroDivisionError; value is a rational.
RECURSIVE EvalFormula(_, _, _)
EvalFormula(c, f, period) ==
    IF f.op = "var" THEN [ok |-> TRUE, value |-> Rat(LocalVar(c, f.name, period), 1)]
    ELSE IF f.op = "num" THEN [ok |-> TRUE, value |-> Rat(f.value, 1)]
    ELSE
      LET l == EvalFormula(c, f.left, period)
          r == EvalFormula(c, f.right, period)
      IN  IF ~l.ok \/ ~r.ok THEN [ok |-> FALSE, value |-> <<0, 1>>]
          ELSE IF f.op = "mul" THEN [ok |-> TRUE, value |-> RatMul(l.value, r.value)]
          ELSE IF f.op = "add" THEN [ok |-> TRUE, value |-> RatAdd(l.value, r.value)]
          ELSE IF f.op = "sub" THEN [ok |-> TRUE, value |-> RatSub(l.value, r.value)]
          ELSE IF r.value[1] = 0 THEN [ok |-> FALSE, value |-> <<0, 1>>]
          ELSE [ok |-> TRUE, value |-> RatDiv(l.value, r.value)]

\* A faulty variant of RoundKpi: two decimals are kept.
RoundKpiTwoDecimals(x) == RoundHalfEven(x[1] * 100, x[2]) * 10

\* round(result, 3), in thousandths
RoundKpi(x) == RoundHalfEven(x[1] * 1000, x[2])

\* KPIManager.add_percentage_change_kpi: [kpis, err].  The callable stored is
\* [op |-> "callable", statement, item_name, lookback]: the closure over the item found
\* (the item item_name of statement) and the lookback.
add_percentage_change_kpi(c, kpis, kpi_name, item_name, lookback) ==
    IF kpi_name \in DOMAIN kpis
    THEN [kpis |-> kpis, err |-> "ValueError: KPI already exists"]
    ELSE IF FindItem(c, item_name) = None
    THEN [kpis |-> kpis, err |-> "ValueError: Financial item not found"]
    ELSE [kpis |-> [n \in DOMAIN kpis \cup {kpi_name} |->
                      IF n = kpi_name
                      THEN [op |-> "callable", statement |-> FindItem(c, item_name)[1],
                            item_name |-> item_name, lookback |-> lookback]
                      ELSE kpis[n]],
          err  |-> ""]

\* The period `lookback` periods before `period`, as percentage_change_formula finds it.
LookbackPeriod(period, lookback) ==
    IF HasQ(period)
    THEN LET year == period \div 10
             lookback_quarter == (period % 10) - lookback
         IN  QuarterLabel(year + ((lookback_quarter - 1) \div 4), ((lookback_quarter - 1) % 4) + 1)
    ELSE YearLabel((period \div 10) - lookback)

\* percentage_change_formula(period): an optional rational
percentage_change_formula(c, fn, period) ==
    LET it == c[fn.statement][fn.item_name]
        current_value == get_value(it, period)
        previous_value == get_value(it, LookbackPeriod(period, fn.lookback))
    IN  IF current_value = None \/ previous_value = None \/ previous_value = Some(0)
        THEN None
        ELSE Some(RatMul(Rat(current_value[1] - previous_value[1], previous_value[1]),
                         <<100, 1>>))

\* The periods of every item of the income statement, the balance sheet and the cash
\* flow statement.
BaseStatementPeriods(c) ==
    UNION {UNION {Keys(c[st][n].historical) \cup Keys(c[st][n].forecasted) : n \in DOMAIN c[st]} :
             st \in {"income_statement", "balance_sheet", "cash_flow_statement"}}

\* The loop of calculate_kpi over the sorted periods for a callable, from the first
\* period of `periods` on: a period whose result is None gets no entry.
RECURSIVE CallableResults(_, _, _, _)
CallableResults(c, fn, periods, results) ==
    IF periods = <<>> THEN results
    ELSE LET result == percentage_change_formula(c, fn, periods[1])
         IN  CallableResults(c, fn, Tail(periods),
                             IF result # None
                             THEN DictSet(results, periods[1], Some(RoundKpi(result[1])))
                             ELSE results)

\* The loop of calculate_kpi over the sorted periods for a formula: a period whose
\* evaluation divides by zero gets the entry None.
RECURSIVE FormulaResults(_, _, _, _)
FormulaResults(c, formula, periods, results) ==
    IF periods = <<>> THEN results
    ELSE LET result == EvalFormula(c, formula, periods[1])
         IN  FormulaResults(c, formula, Tail(periods),
                            DictSet(results, periods[1],
                                    IF result.ok THEN Some(RoundKpi(result.value)) ELSE None))

\* KPIManager.calculate_kpi: [result, err]; result is a dict whose values are optional
\* numbers in thousandths, None standing for Python's None.
calculate_kpi(c, kpis, kpi_name) ==
    IF kpi_name \notin DOMAIN kpis
    THEN [result |-> <<>>, err |-> "ValueError: KPI is not defined"]
    ELSE
      LET formula_or_function == kpis[kpi_name]
      IN  IF formula_or_function.op = "callable"
          THEN [result |-> CallableResults(c, formula_or_function,
                                           SortedSeq(BaseStatementPeriods(c)), <<>>),
                err    |-> ""]
          ELSE
            LET found == {v \in ExtractVariables(formula_or_function) : FindItem(c, v) # None}
                periods == UNION {Keys(c[FindItem(c, v)[1]][v].historical)
                                    \cup Keys(c[FindItem(c, v)[1]][v].forecasted) : v \in found}
            IN  [result |-> FormulaResults(c, formula_or_function, SortedSeq(periods), <<>>),
                 err    |-> ""]

----------------------------------------------------------------------------
(* forecast/forecast_rule.py *)

\* ForecastRule.__init__.  params and period_range are dicts (records); an absent
\* (None) or empty one is [n \in {} |-> 0].  Values of period_range are optional
\* integers.  custom_function is optional: Some([period, value]) stands for the
\* function `lambda item, model: item.add_forecasted(period, value)`.
NewForecastRule(item_name, method, params, custom_function, uses_kpi, period_range) ==
    [item_name       |-> item_name,
     method          |-> method,
     params          |-> params,
     custom_function |-> custom_function,
     uses_kpi        |-> uses_kpi,
     period_range    |-> IF DOMAIN period_range = {}
                         THEN [start |-> Some(1), end |-> None]
                         ELSE period_range]

----------------------------------------------------------------------------
(* forecast/statistical_forecaster.py: forecast_normal.  Amounts are in      *)
(* hundredths.  np.random.normal is the sequence `draws` of the values it    *)
(* returns, one per step.  round() is the nearest hundredth of the exact     *)
(* value; a float that lies exactly between two hundredths is rounded by its *)
(* binary expansion, and no input series has such a mean.  The library-      *)
(* backed methods are not evaluated: no input carries them.                  *)

\* sum of v * v over list(d.values())
RECURSIVE SumSquares(_)
SumSquares(d) == IF d = <<>> THEN 0 ELSE d[1][2] * d[1][2] + SumSquares(Tail(d))

\* len(values)^2 * np.std(values)^2: the population variance is
\* (n * sum(v^2) - sum(v)^2) / n^2
VarianceTimesLenSquared(historical) ==
    Len(historical) * SumSquares(historical) - SumValues(historical) * SumValues(historical)

\* The integer nearest to (mean + std_multiplier * std) * factor, a tie going to the
\* even integer, for std_multiplier * factor >= 0.  With A = sum * factor,
\* B = std_multiplier * factor, n = len and D = n^2 * variance the value is
\* X = (A + B * sqrt(D)) / n, and k - 1/2 <= X exactly when
\* (2k - 1) * n - 2A <= 2B * sqrt(D).
RoundPercentile(historical, std_multiplier, factor) ==
    LET A == SumValues(historical) * factor
        B == std_multiplier * factor
        n == Len(historical)
        D == VarianceTimesLenSquared(historical)
        L(k) == (2 * k - 1) * n - 2 * A
        Reached(k) == L(k) <= 0 \/ L(k) * L(k) <= 4 * B * B * D
        top == CHOOSE k \in ((A \div n) - 1)..((A \div n) + B * (D + 1) + 2) :
                  Reached(k) /\ ~Reached(k + 1)
    IN  IF L(top) >= 0 /\ L(top) * L(top) = 4 * B * B * D /\ top % 2 # 0 THEN top - 1 ELSE top

\* A faulty variant of NormalValue: the result is truncated to 2 decimals.
NormalValueTruncated(historical, mode, std_multiplier, trend, draws, i) ==
    (SumValues(historical) * Pow(1 + trend, i)) \div Len(historical)

\* The value of step i: round(float(val * (1 + trend) ** i), 2), val being the mean,
\* the draw of the step, or mean + std_multiplier * std.
NormalValue(historical, mode, std_multiplier, trend, draws, i) ==
    CASE mode = "mean" ->
           RoundHalfEven(SumValues(historical) * Pow(1 + trend, i), Len(historical))
      [] mode = "random" -> draws[i] * Pow(1 + trend, i)
      [] mode = "percentile" ->
           RoundPercentile(historical, std_multiplier, Pow(1 + trend, i))

\* The loop `for i in range(1, periods + 1)` of forecast_normal from step i on.
RECURSIVE NormalLoop(_, _, _, _, _, _, _, _, _, _, _)
NormalLoop(historical, i, periods, mode, std_multiplier, trend, frequency, draws, current_year, current_q, forecast) ==
    IF i > periods THEN [forecast |-> forecast, err |-> ""]
    ELSE IF mode \notin {"mean", "random", "percentile"}
    THEN [forecast |-> <<>>, err |-> "ValueError: Unsupported mode"]
    ELSE
      LET val == NormalValue(historical, mode, std_multiplier, trend, draws, i)
          bumped == current_q + 1
          q == IF frequency = "year" THEN current_q ELSE IF bumped > 4 THEN 1 ELSE bumped
          year == IF frequency = "year" THEN current_year + 1
                  ELSE IF bumped > 4 THEN current_year + 1 ELSE current_year
          period_key == IF frequency = "year" THEN YearLabel(year) ELSE QuarterLabel(year, q)
      IN  NormalLoop(historical, i + 1, periods, mode, std_multiplier, trend, frequency, draws,
                     year, q, DictSet(forecast, period_key, val))

\* A faulty variant of forecast_normal: the frequency is validated before the
\* empty series is returned for.
forecast_normal_frequency_first(historical, periods, mode, std_multiplier, trend, frequency, draws) ==
    IF frequency \notin {"year", "quarter"}
    THEN [forecast |-> <<>>, err |-> "ValueError: frequency must be 'year' or 'quarter'"]
    ELSE IF historical = <<>> THEN [forecast |-> <<>>, err |-> ""]
    ELSE IF frequency = "quarter" /\ ~HasQ(LastKey(historical))
    THEN [forecast |-> <<>>, err |-> "ValueError: Historical keys must be in 'YYYYQ#' format"]
    ELSE NormalLoop(historical, 1, periods, mode, std_multiplier, trend, frequency, draws,
                    ParsePeriod(LastKey(historical))[1],
                    IF frequency = "year" THEN 0 ELSE ParsePeriod(LastKey(historical))[2], <<>>)

\* StatisticalForecaster(historical).forecast_normal(periods, mode, std_multiplier,
\* trend, frequency): [forecast, err]
forecast_normal(historical, periods, mode, std_multiplier, trend, frequency, draws) ==
    IF historical = <<>> THEN [forecast |-> <<>>, err |-> ""]
    ELSE
      LET last_period == LastKey(historical)
      IN  IF frequency = "year"
          THEN NormalLoop(historical, 1, periods, mode, std_multiplier, trend, frequency, draws,
                          YearPrefix(last_period), 0, <<>>)
          ELSE IF frequency = "quarter"
          THEN IF HasQ(last_period)
               THEN NormalLoop(historical, 1, periods, mode, std_multiplier, trend, frequency,
                               draws, ParsePeriod(last_period)[1], ParsePeriod(last_period)[2],
                               <<>>)
               ELSE [forecast |-> <<>>,
                     err |-> "ValueError: Historical keys must be in 'YYYYQ#' format"]
          ELSE [forecast |-> <<>>, err |-> "ValueError: frequency must be 'year' or 'quarter'"]

----------------------------------------------------------------------------
(* forecast/forecast_model.py *)

\* dict.get(key, default) on a period_range
RangeGet(period_range, key, default) ==
    IF key \in DOMAIN period_range THEN period_range[key] ELSE Some(default)

\* dict.get(key) on params
ParamGet(params, key) == IF key \in DOMAIN params THEN Some(params[key]) ELSE None

\* The loop `for i in range(1, end_period + 1)` of _apply_rule from step i on:
\* the list applicable_periods.
RECURSIVE PeriodLoop(_, _, _, _, _, _, _)
PeriodLoop(i, start_period, end_period, current_year, current_q, quarterly, acc) ==
    IF i > end_period THEN acc
    ELSE
      LET bumped == current_q + 1
          q == IF bumped > 4 THEN 1 ELSE bumped
          year == IF bumped > 4 THEN current_year + 1 ELSE current_year
          period == IF quarterly THEN QuarterLabel(year, q) ELSE YearLabel(year)
      IN  PeriodLoop(i + 1, start_period, end_period, year, q, quarterly,
                     IF start_period <= i /\ i <= end_period
                     THEN Append(acc, period) ELSE acc)

ApplicablePeriods(last_historical_period, start_period, end_period) ==
    LET parsed == ParsePeriod(last_historical_period)
    IN  PeriodLoop(1, start_period, end_period, parsed[1], parsed[2],
                   HasQ(last_historical_period), <<>>)

\* for period in applicable_periods: item.add_forecasted(period, fixed_value)
RECURSIVE WriteFixed(_, _, _)
WriteFixed(it, applicable, fixed_value) ==
    IF applicable = <<>> THEN it
    ELSE WriteFixed(add_forecasted(it, applicable[1], fixed_value), Tail(applicable),
                    fixed_value)

\* for period, value in source.items():
\*     if period in applicable_periods: item.add_forecasted(period, value * factor)
RECURSIVE WriteScaled(_, _, _, _)
WriteScaled(it, source, applicable, factor) ==
    IF source = <<>> THEN it
    ELSE WriteScaled(IF \E i \in DOMAIN applicable : applicable[i] = source[1][1]
                     THEN add_forecasted(it, source[1][1], source[1][2] * factor)
                     ELSE it,
                     Tail(source), applicable, factor)

\* for period, value in forecasted.items():
\*     if period in applicable_periods: item.add_forecasted(period, value)
RECURSIVE WriteReturned(_, _, _)
WriteReturned(it, forecasted, applicable) ==
    IF forecasted = <<>> THEN it
    ELSE WriteReturned(IF \E i \in DOMAIN applicable : applicable[i] = forecasted[1][1]
                       THEN add_forecasted(it, forecasted[1][1], forecasted[1][2])
                       ELSE it,
                       Tail(forecasted), applicable)

\* The keys of the dict statistical_methods.
StatisticalMethods == {"normal", "holt_winters", "sarima", "prophet"}

\* The keyword parameters forecast_normal accepts.
NormalKeywords == {"periods", "mode", "std_multiplier", "trend", "frequency", "random_seed"}

\* params.get(key, default)
ParamGetDefault(params, key, default) == IF key \in DOMAIN params THEN params[key] ELSE default

\* The "statistical" branch of _apply_rule with the method "normal": [item, err].
ApplyStatistical(rule, it, applicable) ==
    LET statistical_method == ParamGetDefault(rule.params, "method", "normal")
        method_params == DOMAIN rule.params \ {"method"}
    IN  IF statistical_method \notin StatisticalMethods
        THEN [item |-> it, err |-> "ValueError: Unknown statistical method"]
        ELSE IF ~(method_params \subseteq NormalKeywords) \/ "periods" \notin method_params
        THEN [item |-> it, err |-> "TypeError"]
        ELSE
          LET res == CASE statistical_method = "normal" ->
                       forecast_normal(DictMerge(it.historical, it.forecasted),
                                       rule.params.periods,
                                       ParamGetDefault(rule.params, "mode", "mean"),
                                       ParamGetDefault(rule.params, "std_multiplier", 1),
                                       ParamGetDefault(rule.params, "trend", 0),
                                       ParamGetDefault(rule.params, "frequency", "year"),
                                       <<>>)
          IN  IF res.err # "" THEN [item |-> it, err |-> res.err]
              ELSE [item |-> WriteReturned(it, res.forecast, applicable), err |-> ""]

\* The method dispatch of _apply_rule on the target item: [item, err].
Dispatch(c, mdl, rule, it, applicable) ==
    IF rule.method = "statistical" THEN ApplyStatistical(rule, it, applicable)
    ELSE IF rule.method = "growth_rate" THEN
        forecast_growth(it, ParamGet(rule.params, "rate"),
                        IF "schedule" \in DOMAIN rule.params THEN rule.params.schedule ELSE <<>>,
                        mdl.periods, mdl.frequency)
    ELSE IF rule.method = "margin_of" THEN
        IF {"base_item", "margin"} \subseteq DOMAIN rule.params
        THEN LET base == FindItem(c, rule.params.base_item)
             IN  IF base # None
                 THEN [item |-> WriteScaled(it, c[base[1]][rule.params.base_item].forecasted,
                                            applicable, rule.params.margin),
                       err  |-> ""]
                 ELSE [item |-> it, err |-> ""]
        ELSE [item |-> it, err |-> "KeyError"]
    ELSE IF rule.method = "fixed" THEN
        IF "value" \in DOMAIN rule.params
        THEN [item |-> WriteFixed(it, applicable, rule.params.value), err |-> ""]
        ELSE [item |-> it, err |-> "KeyError"]
    ELSE IF rule.method = "link_to_item" THEN
        IF {"source_item", "rate"} \subseteq DOMAIN rule.params
        THEN LET source == FindItem(c, rule.params.source_item)
             IN  IF source # None
                 THEN [item |-> WriteScaled(it, c[source[1]][rule.params.source_item].forecasted,
                                            applicable, rule.params.rate),
                       err  |-> ""]
                 ELSE [item |-> it, err |-> ""]
        ELSE [item |-> it, err |-> "KeyError"]
    ELSE IF rule.method = "custom_function" THEN
        IF rule.custom_function # None
        THEN [item |-> add_forecasted(it, rule.custom_function[1].period,
                                      rule.custom_function[1].value),
              err  |-> ""]
        ELSE [item |-> it, err |-> "ValueError: Custom function missing."]
    ELSE [item |-> it, err |-> "ValueError: Unknown method"]

\* ForecastModel._apply_rule: [company, err].  The item is changed in place, so what
\* was written before an exception stays written.
ApplyRule(c, mdl, rule) ==
    LET loc == FindItem(c, rule.item_name)
    IN  IF loc = None THEN [company |-> c, err |-> "ValueError: FinancialItem not found."]
        ELSE
          LET it == c[loc[1]][rule.item_name]
              start_period == RangeGet(rule.period_range, "start", 1)
              end_period == RangeGet(rule.period_range, "end", mdl.periods)
          IN  IF it.historical = <<>> THEN [company |-> c, err |-> "IndexError"]
              ELSE IF end_period = None THEN [company |-> c, err |-> "TypeError"]
              ELSE IF start_period = None /\ end_period[1] >= 1
                   THEN [company |-> c, err |-> "TypeError"]
              ELSE
                LET applicable == IF start_period = None THEN <<>>
                                  ELSE ApplicablePeriods(LastKey(it.historical),
                                                         start_period[1], end_period[1])
                    res == Dispatch(c, mdl, rule, it, applicable)
                IN  [company |-> [c EXCEPT ![loc[1]][rule.item_name] = res.item],
                     err     |-> res.err]

\* A faulty variant of RuleAt: the rules are visited last to first.
RuleAtReversed(rs, i) == rs[Len(rs) + 1 - i]

\* for rule in self.rules: the i-th rule visited
RuleAt(rs, i) == rs[i]

----------------------------------------------------------------------------
(* valuation/dividend_discount_model.py, scenario/scenario_model.py.  Rates, *)
(* ratios, prices and share counts are rationals; base values are integers.  *)

\* The statements DividendDiscountModel._find_item asks, in its order.
DdmStatementOrder == <<"income_statement", "balance_sheet", "cash_flow_statement">>

\* DividendDiscountModel._find_item
DdmFindItem(c, name) ==
    LET hits == {i \in DOMAIN DdmStatementOrder : get_item(c[DdmStatementOrder[i]], name) # None}
    IN  IF hits = {} THEN None
        ELSE Some(DdmStatementOrder[CHOOSE i \in hits : \A j \in hits : i <= j])

\* A faulty variant of Discount: the first period is not discounted.
DiscountFromZero(amount, discount_rate, i) ==
    RatDiv(amount, RatPow(RatAdd(<<1, 1>>, discount_rate), i - 1))

\* amount / ((1 + self.discount_rate) ** i), for 1 + discount_rate # 0
Discount(amount, discount_rate, i) == RatDiv(amount, RatPow(RatAdd(<<1, 1>>, discount_rate), i))

\* Step 2 of calculate_value: the loop over enumerate(forecasted_dividends.items(),
\* start=1) from position i on.
RECURSIVE PresentValue(_, _, _, _)
PresentValue(forecasted_dividends, i, discount_rate, present_value) ==
    IF i > Len(forecasted_dividends) THEN present_value
    ELSE PresentValue(forecasted_dividends, i + 1, discount_rate,
                      RatAdd(present_value,
                             Discount(forecasted_dividends[i][2], discount_rate, i)))

\* DividendDiscountModel.calculate_value: [value, err].  ddm is the model's
\* attributes [base_item_for_dividends, discount_rate, payout_ratio,
\* terminal_growth_rate, periods].
calculate_value(c, ddm) ==
    LET loc == DdmFindItem(c, ddm.base_item_for_dividends)
    IN  IF loc = None THEN [value |-> <<0, 1>>, err |-> "ValueError: Base item not found"]
        ELSE
          LET base_item == c[loc[1]][ddm.base_item_for_dividends]
              forecasted_periods == [i \in DOMAIN base_item.forecasted |-> base_item.forecasted[i][1]]
              count == IF ddm.periods < Len(forecasted_periods) THEN ddm.periods
                       ELSE Len(forecasted_periods)
              forecasted_dividends ==
                  [i \in 1..count |->
                     <<forecasted_periods[i],
                       RatMul(Rat(base_item.forecasted[i][2], 1), ddm.payout_ratio)>>]
              growth_factor == RatAdd(<<1, 1>>, ddm.discount_rate)
          IN  IF count >= 1 /\ growth_factor[1] = 0
              THEN [value |-> <<0, 1>>, err |-> "ZeroDivisionError"]
              ELSE IF forecasted_periods = <<>>
              THEN [value |-> <<0, 1>>, err |-> "IndexError"]
              ELSE
                LET present_value == PresentValue(forecasted_dividends, 1, ddm.discount_rate,
                                                  <<0, 1>>)
                    \* a list index of -1 is the last element
                    final_year == forecasted_periods[IF count = 0 THEN Len(forecasted_periods)
                                                     ELSE count]
                    final_base_value == DictGet(base_item.forecasted, final_year)[1]
                    final_dividend == RatMul(Rat(final_base_value, 1), ddm.payout_ratio)
                IN  IF ddm.discount_rate = ddm.terminal_growth_rate
                    THEN [value |-> <<0, 1>>, err |-> "ZeroDivisionError"]
                    ELSE IF ddm.periods >= 1 /\ growth_factor[1] = 0
                    THEN [value |-> <<0, 1>>, err |-> "ZeroDivisionError"]
                    ELSE
                      LET terminal_value ==
                              RatDiv(RatMul(final_dividend,
                                            RatAdd(<<1, 1>>, ddm.terminal_growth_rate)),
                                     RatSub(ddm.discount_rate, ddm.terminal_growth_rate))
                          terminal_pv == Discount(terminal_value, ddm.discount_rate, ddm.periods)
                      IN  [value |-> RatAdd(present_value, terminal_pv), err |-> ""]

\* DividendDiscountModel.calculate_intrinsic_per_share: [value, err]
calculate_intrinsic_per_share(c, ddm, shares_outstanding) ==
    LET total_value == calculate_value(c, ddm)
    IN  IF total_value.err # "" THEN total_value
        ELSE IF shares_outstanding[1] = 0 THEN [value |-> <<0, 1>>, err |-> "ZeroDivisionError"]
        ELSE [value |-> RatDiv(total_value.value, shares_outstanding), err |-> ""]

\* copy.deepcopy(self.company): a company of its own with the same content
deepcopy(c) == c

\* ForecastModel(company=company_copy, assumptions=assumptions, periods=..., frequency=...):
\* the constructor stores its arguments and an empty rule list; the company it is given
\* stays as it is.
NewForecastModel(c, assumptions, periods, frequency) ==
    [company |-> c, assumptions |-> assumptions, periods |-> periods, frequency |-> frequency,
     rules |-> <<>>]

\* A faulty variant of run_scenario: there is no copy, and the scenario forecasts the
\* dividend base of the company it was given with the assumption "growth".
run_scenario_on_base(c, sm, assumptions, label) ==
    LET loc == DdmFindItem(c, sm.base_item_for_dividends)
        forecast == IF loc = None \/ "growth" \notin DOMAIN assumptions THEN c
                    ELSE [c EXCEPT ![loc[1]][sm.base_item_for_dividends] =
                            forecast_growth(@, Some(assumptions.growth), <<>>, sm.periods,
                                            sm.frequency).item]
        ddm == [base_item_for_dividends |-> sm.base_item_for_dividends,
                discount_rate |-> sm.discount_rate, payout_ratio |-> sm.payout_ratio,
                terminal_growth_rate |-> sm.terminal_growth_rate, periods |-> sm.periods]
        total == calculate_value(forecast, ddm)
        per_share == calculate_intrinsic_per_share(forecast, ddm, sm.shares_outstanding)
    IN  [base |-> forecast, result |-> None,
         err |-> IF total.err # "" THEN total.err ELSE per_share.err]

\* A faulty variant of run_scenario: the copy's dividend base is forecast with the
\* assumption "growth" before it is valued.
run_scenario_applying_growth(c, sm, assumptions, label) ==
    LET loc == DdmFindItem(c, sm.base_item_for_dividends)
        company_copy == IF loc = None \/ "growth" \notin DOMAIN assumptions THEN c
                        ELSE [c EXCEPT ![loc[1]][sm.base_item_for_dividends] =
                                forecast_growth(@, Some(assumptions.growth), <<>>, sm.periods,
                                                sm.frequency).item]
        ddm == [base_item_for_dividends |-> sm.base_item_for_dividends,
                discount_rate |-> sm.discount_rate, payout_ratio |-> sm.payout_ratio,
                terminal_growth_rate |-> sm.terminal_growth_rate, periods |-> sm.periods]
        total == calculate_value(company_copy, ddm)
        per_share == calculate_intrinsic_per_share(company_copy, ddm, sm.shares_outstanding)
    IN  IF total.err # "" THEN [base |-> c, result |-> None, err |-> total.err]
        ELSE IF per_share.err # "" THEN [base |-> c, result |-> None, err |-> per_share.err]
        ELSE [base |-> c,
              result |-> Some([Scenario |-> label, IntrinsicValueTotal |-> total.value,
                               IntrinsicValuePerShare |-> per_share.value,
                               MarginOfSafety |-> None]),
              err |-> ""]

\* ScenarioModel.run_scenario: [base, result, err], base being the company of the
\* ScenarioModel after the call and result optional (none when the call raises).  sm is
\* the ScenarioModel's attributes.
run_scenario(c, sm, assumptions, label) ==
    LET company_copy == deepcopy(c)
        forecast_model == NewForecastModel(company_copy, assumptions, sm.periods, sm.frequency)
        ddm == [base_item_for_dividends |-> sm.base_item_for_dividends,
                discount_rate |-> sm.discount_rate, payout_ratio |-> sm.payout_ratio,
                terminal_growth_rate |-> sm.terminal_growth_rate, periods |-> sm.periods]
        intrinsic_value_total == calculate_value(forecast_model.company, ddm)
        intrinsic_value_per_share ==
            calculate_intrinsic_per_share(forecast_model.company, ddm, sm.shares_outstanding)
    IN  IF intrinsic_value_total.err # ""
        THEN [base |-> c, result |-> None, err |-> intrinsic_value_total.err]
        ELSE IF intrinsic_value_per_share.err # ""
        THEN [base |-> c, result |-> None, err |-> intrinsic_value_per_share.err]
        ELSE [base |-> c,
              result |-> Some([Scenario |-> label,
                               IntrinsicValueTotal |-> intrinsic_value_total.value,
                               IntrinsicValuePerShare |-> intrinsic_value_per_share.value,
                               MarginOfSafety |->
                                  IF sm.market_price # None /\ sm.market_price[1][1] # 0
                                  THEN Some(RatDiv(RatSub(intrinsic_value_per_share.value,
                                                          sm.market_price[1]),
                                                   sm.market_price[1]))
                                  ELSE None]),
              err |-> ""]

----------------------------------------------------------------------------
(* core/financial_item_type.py and the JSON persistence of core/company.py.    *)
(* A document is the tree to_dict builds; json.dump followed by json.load maps  *)
(* a tree of string keys, strings, integers and null to an equal tree, with the *)
(* keys in the order they were written.                                          *)

\* class FinancialItemType(Enum): <<member, value>>
FinancialItemTypes ==
    << <<"ASSET", "Asset">>, <<"LIABILITY", "Liability">>, <<"EQUITY", "Equity">>,
       <<"REVENUE", "Revenue">>, <<"EXPENSE", "Expense">>, <<"RESULT", "Result">>,
       <<"RATIO", "Ratio">>, <<"CASH_FLOW_OPERATING", "Operating Cash Flow Item">>,
       <<"CASH_FLOW_INVESTING", "Investing Cash Flow Item">>,
       <<"CASH_FLOW_FINANCING", "Financing Cash Flow Item">>,
       <<"CASH_FLOW_SUMMARY", "Net Cash Flow (Summary)">>, <<"DIVIDEND", "Dividends Paid">>,
       <<"OTHER", "Other">> >>

\* item.item_type.value
EnumValue(member) == DictGet(FinancialItemTypes, member)[1]

\* FinancialItemType(value): the member with that value, optional (none: ValueError)
FinancialItemType(value) ==
    LET hits == {i \in DOMAIN FinancialItemTypes : FinancialItemTypes[i][2] = value}
    IN  IF hits = {} THEN None ELSE Some(FinancialItemTypes[CHOOSE i \in hits : TRUE][1])

\* Company._statement_to_dict: item name -> {"type", "historical", "forecasted"}
statement_to_dict(statement) ==
    [item_name \in DOMAIN statement |->
       [type |-> EnumValue(statement[item_name].item_type),
        historical |-> DictSorted(statement[item_name].historical),
        forecasted |-> DictSorted(statement[item_name].forecasted)]]

\* Company.to_dict.  id is the company's [name, ticker, currency, description].
to_dict(id, c) ==
    [name |-> id.name, ticker |-> id.ticker, currency |-> id.currency,
     description |-> id.description,
     financials |-> [st \in DOMAIN c |-> statement_to_dict(c[st])]]

\* A faulty variant of LoadItem: the forecasted map is not restored.
LoadItemWithoutForecasted(item_name, item_data) ==
    [NewFinancialItem(item_name, FinancialItemType(item_data.type)[1], <<>>, <<>>)
       EXCEPT !.historical = item_data.historical]

\* The body of the loop of _load_from_dict: the item built from one entry of the
\* document, for a type that is the value of a member.
LoadItem(item_name, item_data) ==
    [NewFinancialItem(item_name, FinancialItemType(item_data.type)[1], <<>>, <<>>)
       EXCEPT !.historical = item_data.historical, !.forecasted = item_data.forecasted]

\* The loop of _load_from_dict over the entries of one statement of the document,
\* names being what is left to load.
RECURSIVE LoadItems(_, _, _)
LoadItems(statement, entries, names) ==
    IF names = {} THEN statement
    ELSE LET item_name == CHOOSE n \in names : TRUE
         IN  LoadItems(add_item(statement, LoadItem(item_name, entries[item_name])), entries,
                       names \ {item_name})

\* Company._load_from_dict on a company [ident, statements]: [ident, statements, err]
load_from_dict(target, data) ==
    LET entries == data.financials.income_statement
    IN  IF \E n \in DOMAIN entries : FinancialItemType(entries[n].type) = None
        THEN [ident |-> [name |-> data.name, ticker |-> data.ticker,
                         currency |-> data.currency, description |-> data.description],
              statements |-> target.statements, err |-> "ValueError"]
        ELSE [ident |-> [name |-> data.name, ticker |-> data.ticker,
                         currency |-> data.currency, description |-> data.description],
              statements |-> [target.statements EXCEPT
                                !.income_statement = LoadItems(@, entries, DOMAIN entries)],
              err |-> ""]

----------------------------------------------------------------------------
(* Inputs of the FinancialItem specification *)

Year0 == 2023
MaxPeriods == 2
MaxOps == 2

Values == {-1, 0, 2}
HistPeriods == {YearLabel(Year0), QuarterLabel(Year0, 2), YearLabel(Year0 + 1)}
ForePeriods == {YearLabel(Year0), YearLabel(Year0 + 2)}
QueryPeriods == {YearLabel(Year0), YearLabel(Year0 + 1), YearLabel(Year0 + 2)}

\* constructor arguments: no data, or one historical entry
HistInputs == {<<>>} \cup {<< <<p, v>> >> : p \in HistPeriods, v \in Values}

OptRates == {None, Some(0), Some(1)}
Schedules ==
    {<<>>,
     << <<YearLabel(Year0 + 1), 0>> >>,
     << <<YearLabel(Year0 + 2), 1>>, <<YearLabel(Year0 + 1), -1>> >>,
     << <<YearLabel(Year0 + 2), 0>> >>}

NoCall ==
    [op |-> "init", period |-> 0, value |-> 0, rate |-> None, schedule |-> <<>>,
     periods |-> 0, frequency |-> ""]

\* The forecast-model variables before any model is built.
ModelIdle ==
    /\ company = EmptyCompany
    /\ model = [periods |-> 0, frequency |-> "Annual"]
    /\ model_kpis = EmptyStatement
    /\ kerr = ""
    /\ rules = <<>>
    /\ pc = "idle"
    /\ idx = 1
    /\ applied = <<>>
    /\ trace = <<>>
    /\ start = EmptyCompany
    /\ ferr = ""

\* Company.__init__ attributes of a company nobody named yet.
NoIdent == [name |-> "", ticker |-> "", currency |-> "", description |-> None]

NoServiceCall == [op |-> "none"]

\* The company's services (KPI registry, valuation, persistence) before any call.
ServiceIdle ==
    /\ ident = NoIdent
    /\ company_kpis = EmptyStatement
    /\ call = NoServiceCall
    /\ doc = None
    /\ loaded = None

----------------------------------------------------------------------------
(* The FinancialItem specification: one item, its four operations *)

ItemInit ==
    /\ \E h \in HistInputs : item = NewFinancialItem(<<"R">>, "REVENUE", h, <<>>)
    /\ ret = None
    /\ last = NoCall
    /\ err = ""
    /\ steps = 0
    /\ ModelIdle
    /\ ServiceIdle

AddHistorical ==
    /\ steps < MaxOps
    /\ \E p \in HistPeriods, v \in Values :
         /\ item' = add_historical(item, p, v)
         /\ last' = [NoCall EXCEPT !.op = "add_historical", !.period = p, !.value = v]
    /\ err' = ""
    /\ steps' = steps + 1
    /\ UNCHANGED <<ret, modelVars, serviceVars>>

AddForecasted ==
    /\ steps < MaxOps
    /\ \E p \in ForePeriods, v \in Values :
         /\ item' = add_forecasted(item, p, v)
         /\ last' = [NoCall EXCEPT !.op = "add_forecasted", !.period = p, !.value = v]
    /\ err' = ""
    /\ steps' = steps + 1
    /\ UNCHANGED <<ret, modelVars, serviceVars>>

GetValue ==
    /\ steps < MaxOps
    /\ \E p \in QueryPeriods :
         /\ ret' = get_value(item, p)
         /\ last' = [NoCall EXCEPT !.op = "get_value", !.period = p]
    /\ err' = ""
    /\ steps' = steps + 1
    /\ UNCHANGED <<item, modelVars, serviceVars>>

ForecastGrowth ==
    /\ steps < MaxOps
    /\ \E r \in OptRates, s \in Schedules, n \in 0..MaxPeriods,
          f \in {"Annual", "Quarterly"} :
         /\ f = "Quarterly" => (r = Some(1) /\ s = <<>>)
         /\ LET res == forecast_growth(item, r, s, n, f)
            IN  /\ item' = res.item
                /\ err' = res.err
         /\ last' = [NoCall EXCEPT !.op = "forecast_growth", !.rate = r, !.schedule = s,
                                   !.periods = n, !.frequency = f]
    /\ steps' = steps + 1
    /\ UNCHANGED <<ret, modelVars, serviceVars>>

ItemNext == AddHistorical \/ AddForecasted \/ GetValue \/ ForecastGrowth

Spec == ItemInit /\ [][ItemNext]_vars

----------------------------------------------------------------------------
(* Properties of the FinancialItem specification *)

\* C1: get_value(p) returns forecasted[p] if p is a key of forecasted, otherwise
\* historical[p] if p is a key of historical, otherwise None, whatever the stored
\* values are (0 included).
C1_GetValuePrefersForecasted ==
    last.op = "get_value" =>
        ret = (IF last.period \in Keys(item.forecasted)
               THEN DictGet(item.forecasted, last.period)
               ELSE IF last.period \in Keys(item.historical)
               THEN DictGet(item.historical, last.period)
               ELSE None)

\* A forecast_growth call with Annual frequency on an item that has historical data.
GrowthCallStep ==
    /\ steps' = steps + 1
    /\ last'.op = "forecast_growth"
    /\ last'.frequency = "Annual"
    /\ item.historical # <<>>

\* The label of step k of the call, counted from the last historical period.
GrowthLabel(k) == YearLabel(YearPrefix(LastKey(item.historical)) + k)

\* C4: forecast_growth(growth_rate = r, periods = n, frequency = Annual) on an item
\* with historical data anchors on the last historical period Y with value v, writes
\* exactly the n forecasted entries Y+1..Y+n with forecasted[Y+k] = v*(1+r)^k, and
\* leaves the historical map unchanged.
C4_FlatGrowthCompounds ==
    [][(GrowthCallStep /\ last'.rate # None /\ last'.schedule = <<>>) =>
         LET v == DictGet(item.historical, LastKey(item.historical))[1]
             r == last'.rate[1]
             n == last'.periods
             Written == {GrowthLabel(k) : k \in 1..n}
         IN  /\ err' = ""
             /\ item'.historical = item.historical
             /\ \A k \in 1..n :
                  DictGet(item'.forecasted, GrowthLabel(k)) = Some(v * Pow(1 + r, k))
             /\ Keys(item'.forecasted) = Keys(item.forecasted) \cup Written
             /\ \A p \in Keys(item.forecasted) \ Written :
                  DictGet(item'.forecasted, p) = DictGet(item.forecasted, p)
      ]_vars

\* C4 witness: a flat 100% growth over MaxPeriods steps from a non-zero anchor.
C4_Witness ==
    /\ last.op = "forecast_growth"
    /\ last.frequency = "Annual"
    /\ last.rate = Some(1)
    /\ last.schedule = <<>>
    /\ last.periods = MaxPeriods
    /\ err = ""
    /\ item.historical # <<>>
    /\ DictGet(item.historical, LastKey(item.historical)) = Some(2)
    /\ DictGet(item.forecasted,
               YearLabel(YearPrefix(LastKey(item.historical)) + MaxPeriods))
         = Some(2 * Pow(2, MaxPeriods))

\* The growth the claim prescribes for step k of the call being made: the schedule
\* entry for the step's label when the schedule has it, else the flat rate (optional).
PrescribedGrowth(k) ==
    IF GrowthLabel(k) \in Keys(last'.schedule)
    THEN DictGet(last'.schedule, GrowthLabel(k))
    ELSE last'.rate

\* C5: the growth of each step is the schedule entry for the step's label when the
\* schedule has that label (whatever its value), otherwise the flat rate when one is
\* given (0 included), otherwise the call fails with the missing-growth error; the
\* value of step k is the value of step k-1 times (1 + growth of step k).
C5_StepGrowthSelection ==
    [][GrowthCallStep =>
         LET n == last'.periods
             Missing == {k \in 1..n : PrescribedGrowth(k) = None}
             Done == IF Missing = {} THEN n
                     ELSE (CHOOSE k \in Missing : \A j \in Missing : k <= j) - 1
             Prev(k) == IF k = 1
                        THEN DictGet(item.historical, LastKey(item.historical))
                        ELSE DictGet(item'.forecasted, GrowthLabel(k - 1))
         IN  /\ err' = (IF Missing = {} THEN "" ELSE "ValueError: No growth specified.")
             /\ \A k \in 1..Done :
                  /\ Prev(k) # None
                  /\ DictGet(item'.forecasted, GrowthLabel(k))
                       = Some(Prev(k)[1] * (1 + PrescribedGrowth(k)[1]))
      ]_vars

\* C5 witness: a schedule entry of 0 for the first step overrides a flat rate of 1,
\* which applies to the second step.
C5_Witness ==
    /\ last.op = "forecast_growth"
    /\ last.frequency = "Annual"
    /\ last.rate = Some(1)
    /\ last.schedule = << <<YearLabel(Year0 + 1), 0>> >>
    /\ last.periods = 2
    /\ err = ""
    /\ item.historical = << <<YearLabel(Year0), 2>> >>
    /\ DictGet(item.forecasted, YearLabel(Year0 + 1)) = Some(2)
    /\ DictGet(item.forecasted, YearLabel(Year0 + 2)) = Some(4)

----------------------------------------------------------------------------
(* Inputs of the forecast-model specifications *)

MaxRules == 2

NameR == <<"R">>
NameP == <<"P">>
NameX == <<"X">>            \* never a line item
NameK == <<"K">>            \* a KPI name, never a line item
NameNI == <<"N", " ", "I">>  \* an unsanitized name
NameN_I == <<"N", "_", "I">>

\* last historical periods: annual, and quarterly with and without a year rollover ahead
Anchors == {YearLabel(Year0), QuarterLabel(Year0, 3), QuarterLabel(Year0, 4)}

\* The label i periods after the period L: the following years of an annual label,
\* the following quarters of a quarterly one.
StepLabel(L, i) ==
    IF L % 10 = 0 THEN ((L \div 10) + i) * 10
    ELSE LET n == ((L % 10) - 1) + i
         IN  ((L \div 10) + (n \div 4)) * 10 + ((n % 4) + 1)

NoDict == [n \in {} |-> 0]
Range(s, e) == [start |-> Some(s), end |-> Some(e)]

\* KPI formula "R * 2"
FormulaR2 ==
    [op |-> "mul", left |-> [op |-> "var", name |-> NameR], right |-> [op |-> "num", value |-> 2]]

RuleInputs ==
    {NewForecastRule(NameR, "growth_rate", [rate |-> 1], None, FALSE, pr) :
        pr \in {NoDict, Range(1, 2)}}
    \cup {NewForecastRule(NameP, "fixed", [value |-> 7], None, FALSE, pr) :
        pr \in {Range(1, 2), Range(2, 5), [start |-> Some(2)]}}
    \cup {NewForecastRule(NameR, "fixed", [value |-> 3], None, FALSE, Range(1, 2))}
    \cup {NewForecastRule(NameP, "margin_of", [base_item |-> b, margin |-> 2], None, FALSE,
                          Range(1, 2)) : b \in {NameR, NameX}}
    \cup {NewForecastRule(NameP, "link_to_item", [source_item |-> b, rate |-> 3], None, FALSE,
                          Range(2, 5)) : b \in {NameR, NameX}}
    \cup {NewForecastRule(NameP, "custom_function", NoDict, f, FALSE, Range(1, 2)) :
        f \in {None, Some([period |-> YearLabel(Year0 + 2), value |-> 9])}}
    \cup {NewForecastRule(NameP, "bogus", NoDict, None, FALSE, Range(1, 2))}
    \cup {NewForecastRule(NameX, "fixed", [value |-> 7], None, FALSE, Range(1, 2))}
    \cup {NewForecastRule(NameK, "kpi", [target_item |-> NameP, adjustment_factor |-> 2], None,
                          TRUE, Range(1, 2))}

ResolveRuleInputs ==
    {NewForecastRule(n, "fixed", [value |-> 7], None, FALSE, Range(1, 2)) :
        n \in {NameR, NameNI, NameN_I, NameX}}

ItemTypeOf(statement) ==
    CASE statement = "income_statement" -> "REVENUE"
      [] statement = "balance_sheet" -> "ASSET"
      [] statement = "cash_flow_statement" -> "CASH_FLOW_OPERATING"
      [] statement = "kpi_statement" -> "RATIO"
      [] OTHER -> "OTHER"

\* The FinancialItem variables while a forecast model is exercised.
ItemIdle ==
    /\ item = NewFinancialItem(NameR, "REVENUE", <<>>, <<>>)
    /\ ret = None
    /\ last = NoCall
    /\ err = ""
    /\ steps = 0

RunIdle ==
    /\ model_kpis = EmptyStatement
    /\ kerr = ""
    /\ rules = <<>>
    /\ pc = "idle"
    /\ idx = 1
    /\ applied = <<>>
    /\ trace = <<>>
    /\ start = EmptyCompany
    /\ ferr = ""

----------------------------------------------------------------------------
(* The forecast-model specifications: ForecastModel over a Company *)

\* A company whose income statement holds R (the base) and P (the target), both with
\* one historical period; R may already carry a forecasted value two periods ahead.
ForecastInit ==
    /\ \E a \in Anchors, n \in 1..MaxPeriods :
       \E f \in {<<>>, << <<StepLabel(a, 2), 5>> >>} :
         /\ company =
              [EmptyCompany EXCEPT !.income_statement =
                 add_item(add_item(EmptyStatement,
                                   NewFinancialItem(NameR, "REVENUE", << <<a, 2>> >>, f)),
                          NewFinancialItem(NameP, "RESULT", << <<a, 1>> >>, <<>>))]
         /\ model = [periods |-> n, frequency |-> "Annual"]
    /\ RunIdle
    /\ ItemIdle
    /\ ServiceIdle

\* A company where one name is held by any set of statements; the item of the i-th
\* statement has historical value i.
ResolveInit ==
    /\ \E nm \in {NameR, NameNI}, S \in SUBSET DOMAIN StatementOrder, n \in 1..MaxPeriods :
         /\ company =
              [st \in {StatementOrder[i] : i \in DOMAIN StatementOrder} |->
                 LET i == CHOOSE k \in DOMAIN StatementOrder : StatementOrder[k] = st
                 IN  IF i \in S
                     THEN add_item(EmptyStatement,
                                   NewFinancialItem(nm, ItemTypeOf(st),
                                                    << <<QuarterLabel(Year0, 3), i>> >>, <<>>))
                     ELSE EmptyStatement]
         /\ model = [periods |-> n, frequency |-> "Annual"]
    /\ RunIdle
    /\ ItemIdle
    /\ ServiceIdle

\* ForecastModel.add_forecast_rule
AddForecastRule(inputs) ==
    /\ pc = "idle"
    /\ Len(rules) < MaxRules
    /\ \E rule \in inputs : rules' = Append(rules, rule)
    /\ UNCHANGED <<company, model, model_kpis, kerr, pc, idx, applied, trace, start, ferr,
                   itemVars, serviceVars>>

\* ForecastModel.add_kpi
AddKpi ==
    /\ pc = "idle"
    /\ LET res == kpi_add_kpi(model_kpis, NameK, FormulaR2)
       IN  /\ model_kpis' = res.kpis
           /\ kerr' = res.err
    /\ UNCHANGED <<company, model, rules, pc, idx, applied, trace, start, ferr, itemVars, serviceVars>>

\* ForecastModel.run_forecast is entered
RunForecast ==
    /\ pc = "idle"
    /\ pc' = "running"
    /\ idx' = 1
    /\ applied' = <<>>
    /\ trace' = <<>>
    /\ start' = company
    /\ ferr' = ""
    /\ UNCHANGED <<company, model, model_kpis, kerr, rules, itemVars, serviceVars>>

\* one iteration of `for rule in self.rules: self._apply_rule(rule)`; an exception
\* leaves the loop and run_forecast
ApplyNext ==
    /\ pc = "running"
    /\ idx <= Len(rules)
    /\ LET rule == RuleAt(rules, idx)
           res == ApplyRule(company, model, rule)
       IN  /\ company' = res.company
           /\ applied' = Append(applied, rule)
           /\ trace' = Append(trace, res.company)
           /\ ferr' = res.err
           /\ pc' = IF res.err = "" THEN "running" ELSE "failed"
           /\ idx' = IF res.err = "" THEN idx + 1 ELSE idx
    /\ UNCHANGED <<model, model_kpis, kerr, rules, start, itemVars, serviceVars>>

\* the loop is exhausted and run_forecast returns
Finish ==
    /\ pc = "running"
    /\ idx > Len(rules)
    /\ pc' = "done"
    /\ UNCHANGED <<company, model, model_kpis, kerr, rules, idx, applied, trace, start, ferr,
                   itemVars, serviceVars>>

ForecastNext ==
    AddForecastRule(RuleInputs) \/ AddKpi \/ RunForecast \/ ApplyNext \/ Finish

ForecastSpec == ForecastInit /\ [][ForecastNext]_vars

ResolveNext == AddForecastRule(ResolveRuleInputs) \/ RunForecast \/ ApplyNext \/ Finish

ResolveSpec == ResolveInit /\ [][ResolveNext]_vars

----------------------------------------------------------------------------
(* Properties of the forecast-model specifications *)

\* The company the j-th applied rule started from, and whether that rule raised.
Before(j) == IF j = 1 THEN start ELSE trace[j - 1]
Raised(j) == pc = "failed" /\ j = Len(applied)

\* The statements in the documented search order, and the documented resolution of a
\* name: the item of the first statement that holds it.
SearchOrder ==
    <<"income_statement", "balance_sheet", "cash_flow_statement", "kpi_statement",
      "other_financials_statement">>
Holders(c, name) == {i \in 1..5 : name \in DOMAIN c[SearchOrder[i]]}
FirstHolder(c, name) == SearchOrder[CHOOSE i \in Holders(c, name) : \A k \in Holders(c, name) : i <= k]
Resolved(c, name) == c[FirstHolder(c, name)][name]

MarginRule == NewForecastRule(NameP, "margin_of", [base_item |-> NameR, margin |-> 2], None,
                              FALSE, Range(1, 2))
FixedBaseRule == NewForecastRule(NameR, "fixed", [value |-> 3], None, FALSE, Range(1, 2))

\* C2: run_forecast applies every rule exactly once in the order the rules were added;
\* each rule works on the company as the rules before it left it (a margin_of rule
\* after the rule forecasting its base reads that run's base values, one before it
\* does not); if rule k fails, what rules 1..k-1 wrote stays and no rule after k is
\* applied.
C2_RulesAppliedInListOrder ==
    /\ Len(applied) <= Len(rules)
    /\ applied = SubSeq(rules, 1, Len(applied))
    /\ Len(trace) = Len(applied)
    /\ pc # "idle" => company = (IF trace = <<>> THEN start ELSE trace[Len(trace)])
    /\ \A j \in 1..Len(applied) : trace[j] = ApplyRule(Before(j), model, rules[j]).company
    /\ pc = "running" => idx = Len(applied) + 1
    /\ pc = "done" => Len(applied) = Len(rules) /\ ferr = ""
    /\ pc = "failed" =>
         LET k == Len(applied)
         IN  /\ k >= 1 /\ ferr # ""
             /\ ferr = ApplyRule(Before(k), model, rules[k]).err
             /\ \A st \in DOMAIN company : \A n \in DOMAIN company[st] :
                  /\ n # rules[k].item_name => company[st][n] = Before(k)[st][n]
                  /\ company[st][n].historical = Before(k)[st][n].historical
                  /\ Keys(Before(k)[st][n].forecasted) \subseteq Keys(company[st][n].forecasted)
    /\ (pc = "done" /\ rules = <<FixedBaseRule, MarginRule>>
          /\ HasQ(LastKey(company.income_statement[NameP].historical))) =>
         \A i \in 1..2 :
            LET p == StepLabel(LastKey(company.income_statement[NameP].historical), i)
            IN  DictGet(company.income_statement[NameP].forecasted, p) = Some(3 * 2)
    /\ (pc = "done" /\ rules = <<MarginRule, FixedBaseRule>>
          /\ start.income_statement[NameR].forecasted = <<>>) =>
         company.income_statement[NameP].forecasted = <<>>

\* C2 witness: a base rule followed by the margin rule ran to the end and the margin
\* rule saw the base values of this run.
C2_Witness ==
    /\ pc = "done"
    /\ rules = <<FixedBaseRule, MarginRule>>
    /\ start.income_statement[NameR].forecasted = <<>>
    /\ company.income_statement[NameP].forecasted
         = << <<QuarterLabel(Year0, 4), 6>>, <<QuarterLabel(Year0 + 1, 1), 6>> >>

\* C3: a rule constructed without a period_range is applied over steps
\* 1..model.periods: with one growth_rate rule (rate r, no period_range) on an item
\* whose last historical period is the annual year Y with value v, run_forecast under
\* Annual frequency completes without error and leaves forecasted[Y+k] = v*(1+r)^k for
\* every k in 1..model.periods.
C3_DefaultRangeCoversModelPeriods ==
    (/\ pc \in {"done", "failed"}
     /\ Len(rules) = 1
     /\ rules[1].method = "growth_rate"
     /\ rules[1].period_range = [start |-> Some(1), end |-> None]
     /\ DOMAIN rules[1].params = {"rate"}
     /\ Holders(start, rules[1].item_name) # {}
     /\ ~HasQ(LastKey(Resolved(start, rules[1].item_name).historical)))
    =>
      LET before == Resolved(start, rules[1].item_name)
          Y == LastKey(before.historical)
          v == DictGet(before.historical, Y)[1]
      IN  /\ pc = "done"
          /\ \A k \in 1..model.periods :
               DictGet(Resolved(company, rules[1].item_name).forecasted, StepLabel(Y, k))
                 = Some(v * Pow(1 + rules[1].params.rate, k))

\* C6: for a rule with period range {start: s, end: e} on a target whose last
\* historical period is L, the applicable periods are exactly the labels of steps s..e
\* after L (annual: Y+i; quarterly: the i-th following quarter); a fixed rule writes
\* its constant to exactly these periods and to no other period.
C6_FixedWritesStepsAfterLast ==
    \A j \in 1..Len(applied) :
       (/\ applied[j].method = "fixed"
        /\ DOMAIN applied[j].period_range = {"start", "end"}
        /\ applied[j].period_range.start # None
        /\ applied[j].period_range.end # None
        /\ Holders(Before(j), applied[j].item_name) # {}
        /\ Resolved(Before(j), applied[j].item_name).historical # <<>>)
       =>
         LET before == Resolved(Before(j), applied[j].item_name)
             after == Resolved(trace[j], applied[j].item_name)
             L == LastKey(before.historical)
             A == {StepLabel(L, i) :
                     i \in applied[j].period_range.start[1]..applied[j].period_range.end[1]}
         IN  /\ ~Raised(j)
             /\ \A p \in A : DictGet(after.forecasted, p) = Some(applied[j].params.value)
             /\ Keys(after.forecasted) = Keys(before.forecasted) \cup A
             /\ \A p \in Keys(before.forecasted) \ A :
                  DictGet(after.forecasted, p) = DictGet(before.forecasted, p)

\* C7: for a margin_of rule with margin m and base item B, A being the labels of steps
\* start..end after the target's last historical period: afterwards
\* target.forecasted[p] = B.forecasted[p] * m for every p that is a forecasted period
\* of B and in A, and the target's forecasted map is unchanged at every other period.
C7_MarginWritesBaseTimesMargin ==
    \A j \in 1..Len(applied) :
       (/\ applied[j].method = "margin_of"
        /\ DOMAIN applied[j].period_range = {"start", "end"}
        /\ applied[j].period_range.start # None
        /\ applied[j].period_range.end # None
        /\ Holders(Before(j), applied[j].item_name) # {}
        /\ Holders(Before(j), applied[j].params.base_item) # {}
        /\ Resolved(Before(j), applied[j].item_name).historical # <<>>)
       =>
         LET before == Resolved(Before(j), applied[j].item_name)
             after == Resolved(trace[j], applied[j].item_name)
             base == Resolved(Before(j), applied[j].params.base_item)
             L == LastKey(before.historical)
             A == {StepLabel(L, i) :
                     i \in applied[j].period_range.start[1]..applied[j].period_range.end[1]}
             W == Keys(base.forecasted) \cap A
         IN  /\ \A p \in W :
                  DictGet(after.forecasted, p)
                    = Some(DictGet(base.forecasted, p)[1] * applied[j].params.margin)
             /\ Keys(after.forecasted) = Keys(before.forecasted) \cup W
             /\ \A p \in Keys(before.forecasted) \ W :
                  DictGet(after.forecasted, p) = DictGet(before.forecasted, p)

\* C8: rule target resolution searches the statements in the order Income, Balance,
\* CashFlow, KPI, OtherFinancials and takes the item of the first statement holding the
\* name; when no statement holds the name, applying the rule fails with the
\* item-not-found error and no line item is changed.
C8_FirstStatementWins ==
    \A j \in 1..Len(applied) :
       LET name == applied[j].item_name
       IN  IF Holders(Before(j), name) = {}
           THEN /\ Raised(j)
                /\ ferr = "ValueError: FinancialItem not found."
                /\ trace[j] = Before(j)
           ELSE /\ ~Raised(j)
                /\ \A st \in DOMAIN trace[j] : \A n \in DOMAIN trace[j][st] :
                     (st # FirstHolder(Before(j), name) \/ n # name)
                        => trace[j][st][n] = Before(j)[st][n]
                /\ applied[j].method = "fixed" =>
                     \E p \in Keys(Resolved(trace[j], name).forecasted) :
                        DictGet(Resolved(trace[j], name).forecasted, p)
                          = Some(applied[j].params.value)

\* C8 witness: the name is held by the KPI and the OtherFinancials statements only, a
\* fixed rule on it ran, and the KPI statement's item was written.
C8_Witness ==
    /\ pc = "done"
    /\ Len(applied) = 1
    /\ Holders(start, applied[1].item_name) = {4, 5}
    /\ company.kpi_statement[applied[1].item_name].forecasted # <<>>
    /\ company.other_financials_statement[applied[1].item_name].forecasted = <<>>

\* C9: a rule with uses_kpi = True evaluates the named KPI through the KPI evaluator,
\* multiplies each period's result by adjustment_factor (1 when not given), and writes
\* the products into the forecasted values of the named target line item.
C9_KpiRuleProjectsIntoTarget ==
    \A j \in 1..Len(applied) :
       (/\ applied[j].uses_kpi
        /\ applied[j].item_name \in DOMAIN model_kpis
        /\ "target_item" \in DOMAIN applied[j].params
        /\ Holders(Before(j), applied[j].params.target_item) # {})
       =>
         LET kpi == calculate_kpi(Before(j), model_kpis, applied[j].item_name).result
             factor == IF "adjustment_factor" \in DOMAIN applied[j].params
                       THEN applied[j].params.adjustment_factor ELSE 1
             target == Resolved(trace[j], applied[j].params.target_item)
         IN  /\ ~Raised(j)
             /\ \A i \in DOMAIN kpi :
                  kpi[i][2] # None =>
                    /\ DictGet(target.forecasted, kpi[i][1]) # None
                    /\ DictGet(target.forecasted, kpi[i][1])[1] * 1000 = kpi[i][2][1] * factor

\* C10: applying margin_of or link_to_item whose base_item / source_item names no line
\* item of the company fails with a lookup error that aborts the rule application and
\* run_forecast; it never completes silently.
C10_MissingBaseItemFails ==
    \A j \in 1..Len(applied) :
       LET key == IF applied[j].method = "margin_of" THEN "base_item" ELSE "source_item"
       IN  (/\ applied[j].method \in {"margin_of", "link_to_item"}
            /\ key \in DOMAIN applied[j].params
            /\ Holders(Before(j), applied[j].params[key]) = {})
           => Raised(j)

----------------------------------------------------------------------------
(* The statistical specification: a ForecastModel whose rules are            *)
(* statistical rules, rules with an unsupported method tag and custom        *)
(* rules, over a target T (amounts in hundredths) and a line item E that     *)
(* has no data yet.                                                          *)

NameT == <<"T">>
NameE == <<"E">>

StatRuleInputs ==
    {NewForecastRule(NameT, "statistical", [method |-> "normal", periods |-> 3, frequency |-> "quarter"],
                     None, FALSE, pr) : pr \in {Range(1, 2), Range(2, 3)}}
    \cup {NewForecastRule(NameT, "statistical", [periods |-> 3], None, FALSE, Range(1, 2)),
          NewForecastRule(NameT, "statistical", [periods |-> 2, frequency |-> "quarter", trend |-> 1],
                          None, FALSE, Range(1, 2)),
          NewForecastRule(NameT, "statistical", [method |-> "bogus", periods |-> 3], None, FALSE,
                          Range(1, 2)),
          NewForecastRule(NameT, "statistical", [periods |-> 3, mode |-> "bogus"], None, FALSE,
                          Range(1, 2)),
          NewForecastRule(NameT, "statistical", [method |-> "normal"], None, FALSE, Range(1, 2))}
    \cup {NewForecastRule(NameT, "bogus", NoDict, None, FALSE, pr) : pr \in {NoDict, Range(1, 2)}}
    \cup {NewForecastRule(NameE, "bogus", NoDict, None, FALSE, Range(1, 2))}
    \cup {NewForecastRule(NameT, "custom_function", NoDict, None, FALSE, pr) :
            pr \in {NoDict, Range(1, 2)}}
    \cup {NewForecastRule(NameT, "custom_function", NoDict,
                          Some([period |-> YearLabel(Year0 + 2), value |-> 900]), FALSE,
                          Range(1, 2))}

\* T has one historical period of 1.00 and possibly one forecasted value: at the
\* historical period itself (3.00) or at the period after it (2.00).
StatInit ==
    /\ \E a \in Anchors :
       \E f \in {<<>>, << <<a, 300>> >>, << <<StepLabel(a, 1), 200>> >>} :
         company =
           [EmptyCompany EXCEPT !.income_statement =
              add_item(add_item(EmptyStatement,
                                NewFinancialItem(NameT, "REVENUE", << <<a, 100>> >>, f)),
                       NewFinancialItem(NameE, "EXPENSE", <<>>, <<>>))]
    /\ model = [periods |-> MaxPeriods, frequency |-> "Annual"]
    /\ RunIdle
    /\ ItemIdle
    /\ ServiceIdle

StatNext == AddForecastRule(StatRuleInputs) \/ RunForecast \/ ApplyNext \/ Finish

StatSpec == StatInit /\ [][StatNext]_vars

----------------------------------------------------------------------------
(* Properties of the statistical specification *)

\* The series the documented forecaster is built from: every historical and forecasted
\* period of the item, the forecasted value winning on a shared period.
MergedSeries(it) ==
    LET ps == SortedSeq(Keys(it.historical) \cup Keys(it.forecasted))
    IN  [i \in DOMAIN ps |->
           <<ps[i], IF ps[i] \in Keys(it.forecasted) THEN DictGet(it.forecasted, ps[i])[1]
                    ELSE DictGet(it.historical, ps[i])[1]>>]

\* A statistical rule whose parameters the normal forecaster accepts for the series.
WellFormedStatistical(rule, it) ==
    /\ rule.method = "statistical"
    /\ ParamGetDefault(rule.params, "method", "normal") = "normal"
    /\ "periods" \in DOMAIN rule.params
    /\ ParamGetDefault(rule.params, "mode", "mean") = "mean"
    /\ ParamGetDefault(rule.params, "frequency", "year") = "quarter"
          => HasQ(LastKey(MergedSeries(it)))
    /\ DOMAIN rule.period_range = {"start", "end"}
    /\ rule.period_range.start # None
    /\ rule.period_range.end # None

\* C11: a statistical rule builds its forecaster from the target's historical map
\* merged with its forecasted map (forecasted wins on a shared period); after the
\* rule the target's forecasted map differs from before only at the periods that are
\* both returned by the forecaster and in the rule's applicable period set (the labels
\* of steps start..end after the last historical period), where it holds the returned
\* value; a returned period outside the applicable set is not written.
C11_StatisticalWritesReturnedInRange ==
    \A j \in 1..Len(applied) :
       (/\ Holders(Before(j), applied[j].item_name) # {}
        /\ Resolved(Before(j), applied[j].item_name).historical # <<>>
        /\ WellFormedStatistical(applied[j], Resolved(Before(j), applied[j].item_name)))
       =>
         LET rule == applied[j]
             before == Resolved(Before(j), rule.item_name)
             after == Resolved(trace[j], rule.item_name)
             returned == forecast_normal(MergedSeries(before), rule.params.periods, "mean", 1,
                                         ParamGetDefault(rule.params, "trend", 0),
                                         ParamGetDefault(rule.params, "frequency", "year"),
                                         <<>>).forecast
             A == {StepLabel(LastKey(before.historical), i) :
                     i \in rule.period_range.start[1]..rule.period_range.end[1]}
             W == Keys(returned) \cap A
         IN  /\ ~Raised(j)
             /\ \A p \in W : DictGet(after.forecasted, p) = DictGet(returned, p)
             /\ Keys(after.forecasted) = Keys(before.forecasted) \cup W
             /\ \A p \in Keys(before.forecasted) \ W :
                  DictGet(after.forecasted, p) = DictGet(before.forecasted, p)
             /\ after.historical = before.historical

\* The method tags the rule engine documents.
SupportedMethods ==
    {"growth_rate", "margin_of", "link_to_item", "fixed", "custom_function", "statistical"}

\* C12: applying a rule whose method tag is not one of the supported methods fails
\* with the unknown-method error, and applying a custom_function rule that carries no
\* function fails with the missing-custom-function error; in both cases no line item's
\* historical or forecasted map is changed.
C12_UnknownMethodAndMissingFunctionFail ==
    \A j \in 1..Len(applied) :
       Holders(Before(j), applied[j].item_name) # {} =>
         /\ applied[j].method \notin SupportedMethods =>
               /\ Raised(j)
               /\ ferr = "ValueError: Unknown method"
               /\ trace[j] = Before(j)
         /\ (applied[j].method = "custom_function" /\ applied[j].custom_function = None) =>
               /\ Raised(j)
               /\ ferr = "ValueError: Custom function missing."
               /\ trace[j] = Before(j)

----------------------------------------------------------------------------
(* The KPI specification: the KPIManager of a Company (company.kpi_manager)  *)
(* over a company with the annual items R and N in the income statement, the *)
(* quarterly item Q in the cash flow statement and possibly the item Y in    *)
(* the KPI statement.                                                        *)

NameN == <<"N">>
NameQ == <<"Q">>
NameY == <<"Y">>

KpiNames == {"K1", "K2"}
Lookbacks == {1, 2, 5}

\* "N / R * 100"
FormulaMargin ==
    [op |-> "mul",
     left |-> [op |-> "div", left |-> [op |-> "var", name |-> NameN],
               right |-> [op |-> "var", name |-> NameR]],
     right |-> [op |-> "num", value |-> 100]]

\* "R - N"
FormulaDiff ==
    [op |-> "sub", left |-> [op |-> "var", name |-> NameR], right |-> [op |-> "var", name |-> NameN]]

Formulas == {FormulaMargin, FormulaDiff, FormulaR2}

QuarterlySeries ==
    << <<QuarterLabel(Year0 - 1, 3), 100>>, <<QuarterLabel(Year0 - 1, 4), 0>>,
       <<QuarterLabel(Year0, 1), 150>>, <<QuarterLabel(Year0, 4), 120>> >>

KpiInit ==
    /\ \E r \in {0, 900}, withY \in BOOLEAN :
       \E f \in {<<>>, << <<YearLabel(Year0 + 1), 0>> >>, << <<YearLabel(Year0 + 1), 1100>> >>} :
         company =
           [EmptyCompany EXCEPT
              !.income_statement =
                 add_item(add_item(EmptyStatement,
                                   NewFinancialItem(NameR, "REVENUE",
                                                    << <<YearLabel(Year0 - 1), r>>,
                                                       <<YearLabel(Year0), 1000>> >>, f)),
                          NewFinancialItem(NameN, "RESULT", << <<YearLabel(Year0), 200>> >>,
                                           << <<YearLabel(Year0 + 1), 300>> >>)),
              !.cash_flow_statement =
                 add_item(EmptyStatement,
                          NewFinancialItem(NameQ, "CASH_FLOW_OPERATING", QuarterlySeries,
                                           <<>>)),
              !.kpi_statement =
                 IF withY
                 THEN add_item(EmptyStatement,
                               NewFinancialItem(NameY, "RATIO",
                                                << <<YearLabel(Year0 - 3), 500>>,
                                                   <<YearLabel(Year0 - 2), 600>> >>, <<>>))
                 ELSE EmptyStatement]
    /\ ident = [name |-> "TestCo", ticker |-> "TCO", currency |-> "USD", description |-> None]
    /\ company_kpis = EmptyStatement
    /\ call = NoServiceCall
    /\ doc = None
    /\ loaded = None
    /\ model = [periods |-> 0, frequency |-> "Annual"]
    /\ RunIdle
    /\ ItemIdle

\* company.kpi_manager.add_kpi(name, formula)
KpiAddKpi ==
    /\ \E name \in KpiNames, formula \in Formulas :
         LET res == kpi_add_kpi(company_kpis, name, formula)
         IN  /\ company_kpis' = res.kpis
             /\ call' = [op |-> "add_kpi", name |-> name, result |-> <<>>, err |-> res.err]
    /\ UNCHANGED <<ident, doc, loaded, modelVars, itemVars>>

\* company.kpi_manager.add_percentage_change_kpi(name, item_name, lookback)
KpiAddPercentageChange ==
    /\ \E name \in KpiNames, item_name \in {NameR, NameQ, NameY, NameX}, lookback \in Lookbacks :
         LET res == add_percentage_change_kpi(company, company_kpis, name, item_name, lookback)
         IN  /\ company_kpis' = res.kpis
             /\ call' = [op |-> "add_percentage_change_kpi", name |-> name, result |-> <<>>,
                         err |-> res.err]
    /\ UNCHANGED <<ident, doc, loaded, modelVars, itemVars>>

\* company.kpi_manager.calculate_kpi(name)
KpiCalculate ==
    /\ \E name \in KpiNames :
         LET res == calculate_kpi(company, company_kpis, name)
         IN  call' = [op |-> "calculate_kpi", name |-> name, result |-> res.result,
                      err |-> res.err]
    /\ UNCHANGED <<ident, company_kpis, doc, loaded, modelVars, itemVars>>

KpiNext == KpiAddKpi \/ KpiAddPercentageChange \/ KpiCalculate

KpiSpec == KpiInit /\ [][KpiNext]_vars

----------------------------------------------------------------------------
(* Properties of the KPI specification *)

\* The documented value of an item at a period: the forecasted value if the period is
\* forecasted, else the historical one, else none.
ValueAt(it, period) ==
    IF period \in Keys(it.forecasted) THEN DictGet(it.forecasted, period)
    ELSE DictGet(it.historical, period)

\* The value a formula binds a referenced name to at a period: the item's
\* get_value(period), 0 when it has none.
Bound(name, period) ==
    IF Holders(company, name) = {} THEN 0
    ELSE LET v == get_value(Resolved(company, name), period)
         IN  IF v = None THEN 0 ELSE v[1]

\* The periods of the line items a formula references.
ReferencedPeriods(formula) ==
    UNION {Keys(Resolved(company, n).historical) \cup Keys(Resolved(company, n).forecasted) :
             n \in {v \in ExtractVariables(formula) : Holders(company, v) # {}}}

\* Whether the formula divides by zero at the period, and its value in thousandths
\* (rounded to 3 decimals) when it does not.
DividesByZero(formula, period) == formula = FormulaMargin /\ Bound(NameR, period) = 0
FormulaValue(formula, period) ==
    IF formula = FormulaMargin
    THEN RoundHalfEven(Bound(NameN, period) * 100 * 1000, Bound(NameR, period))
    ELSE IF formula = FormulaDiff
    THEN (Bound(NameR, period) - Bound(NameN, period)) * 1000
    ELSE Bound(NameR, period) * 2 * 1000

\* The last call was calculate_kpi on a registered formula KPI.
FormulaCalculated ==
    /\ call.op = "calculate_kpi"
    /\ call.name \in DOMAIN company_kpis
    /\ company_kpis[call.name].op # "callable"

\* C13: for a formula KPI, calculate_kpi returns a map whose periods are drawn from
\* the union of the historical and forecasted periods of every line item the formula
\* references, and whose value at period p is the formula evaluated with each
\* referenced item bound to its get_value(p) (0 when the item has no value at p),
\* rounded to 3 decimals; N / R * 100 with R = 1000 and N = 200 gives 20.0.
C13_FormulaKpiOverReferencedPeriods ==
    FormulaCalculated =>
      LET formula == company_kpis[call.name]
      IN  /\ call.err = ""
          /\ Keys(call.result) \subseteq ReferencedPeriods(formula)
          /\ \A p \in ReferencedPeriods(formula) :
                ~DividesByZero(formula, p) =>
                   DictGet(call.result, p) = Some(Some(FormulaValue(formula, p)))

\* C13 witness: 200 / 1000 * 100 at the year Year0 is 20.0, and 300 / 1100 * 100 at the
\* next year is 27.273.
C13_Witness ==
    /\ FormulaCalculated
    /\ company_kpis[call.name] = FormulaMargin
    /\ DictGet(call.result, YearLabel(Year0)) = Some(Some(20000))
    /\ DictGet(call.result, YearLabel(Year0 + 1)) = Some(Some(27273))

\* C14: when evaluating a formula KPI divides by zero at a period, calculate_kpi does
\* not fail and that period is not a key of the result; the other periods are still
\* computed.
C14_DivisionByZeroPeriodExcluded ==
    FormulaCalculated =>
      LET formula == company_kpis[call.name]
      IN  /\ call.err = ""
          /\ \A p \in ReferencedPeriods(formula) :
                IF DividesByZero(formula, p)
                THEN p \notin Keys(call.result)
                ELSE DictGet(call.result, p) = Some(Some(FormulaValue(formula, p)))

\* The period k periods before p: k years earlier, or k quarters earlier.
PeriodBefore(p, k) ==
    IF p % 10 = 0 THEN ((p \div 10) - k) * 10
    ELSE LET n == ((p \div 10) * 4 + ((p % 10) - 1)) - k
         IN  (n \div 4) * 10 + ((n % 4) + 1)

\* Every period some line item of the company has a value at.
AllPeriods ==
    UNION {UNION {Keys(company[st][n].historical) \cup Keys(company[st][n].forecasted) :
                    n \in DOMAIN company[st]} : st \in DOMAIN company}

\* The last call was calculate_kpi on a registered percentage-change KPI.
ChangeCalculated ==
    /\ call.op = "calculate_kpi"
    /\ call.name \in DOMAIN company_kpis
    /\ company_kpis[call.name].op = "callable"

\* C15: for a percentage-change KPI over item X with lookback k, the result at period
\* p is round((X(p) - X(q)) / X(q) * 100, 3) where q is the period exactly k periods
\* before p (annual: year - k; quarterly: k quarters earlier, wrapping across year
\* boundaries), and p is absent from the result exactly when X has no value at p, X
\* has no value at q, or X(q) is zero.
C15_PercentageChangeOverLookback ==
    ChangeCalculated =>
      LET X == Resolved(company, company_kpis[call.name].item_name)
          k == company_kpis[call.name].lookback
      IN  /\ call.err = ""
          /\ \A p \in AllPeriods \cup Keys(call.result) :
                LET cur == ValueAt(X, p)
                    prev == ValueAt(X, PeriodBefore(p, k))
                IN  IF cur = None \/ prev = None \/ prev = Some(0)
                    THEN p \notin Keys(call.result)
                    ELSE DictGet(call.result, p)
                           = Some(Some(RoundHalfEven((cur[1] - prev[1]) * 100 * 1000 *
                                                       (IF prev[1] < 0 THEN -1 ELSE 1),
                                                     Abs(prev[1]))))

\* C16: after any sequence of add_kpi / add_percentage_change_kpi calls, adding a KPI
\* under a name that is already registered fails and leaves the registered definition
\* unchanged, and calculate_kpi on a name that was never successfully registered fails
\* with the undefined-KPI error.  (A name is in the registry exactly when an add
\* under it succeeded: a successful add puts it there and no step removes a name.)
C16_DuplicateAndUndefinedKpiFail ==
    [][/\ DOMAIN company_kpis \subseteq DOMAIN company_kpis'
       /\ (call'.op \in {"add_kpi", "add_percentage_change_kpi"}) =>
             IF call'.name \in DOMAIN company_kpis
             THEN call'.err = "ValueError: KPI already exists" /\ company_kpis' = company_kpis
             ELSE /\ \A n \in DOMAIN company_kpis : company_kpis'[n] = company_kpis[n]
                  /\ call'.err = "" <=> call'.name \in DOMAIN company_kpis'
       /\ call'.op = "calculate_kpi" =>
             /\ company_kpis' = company_kpis
             /\ call'.name \notin DOMAIN company_kpis =>
                   call'.err = "ValueError: KPI is not defined"
             /\ call'.name \in DOMAIN company_kpis => call'.err = ""
      ]_vars

\* C16 witness: K1 is registered as a formula, and adding a percentage-change KPI
\* under K1 has just failed.
C16_Witness ==
    /\ call.op = "add_percentage_change_kpi"
    /\ call.name = "K1"
    /\ call.err = "ValueError: KPI already exists"
    /\ "K1" \in DOMAIN company_kpis
    /\ company_kpis["K1"] \in Formulas

----------------------------------------------------------------------------
(* The valuation specification: DividendDiscountModel and ScenarioModel over a *)
(* Company whose dividend base D holds 0 to 3 forecasted periods.               *)

NameD == <<"D">>

DiscountRates == {<<1, 10>>, <<1, 4>>}
TerminalGrowthRates == {<<1, 50>>, <<0, 1>>, <<1, 10>>}
PayoutRatios == {<<1, 2>>, <<1, 1>>}
SharesOutstanding == {<<10, 1>>, <<0, 1>>}
MarketPrices == {None, Some(<<0, 1>>), Some(<<50, 1>>)}
Labels == {"Bull Case", "Bear Case"}

\* AssumptionSet.assumptions: none, or {"growth": 1}
AssumptionSets == {EmptyStatement, [growth |-> 1]}

\* The dividend base: forecasts of 0 to 3 years in ascending order, and one written by
\* add_forecasted for the second year followed by forecast_growth(growth_rate = 1,
\* periods = 1), which appends the first year behind it.
BaseItems ==
    {NewFinancialItem(NameD, "RESULT", << <<YearLabel(Year0), 100>> >>,
                      [i \in 1..k |-> <<YearLabel(Year0 + i), 100 + 10 * i>>]) : k \in 0..3}
    \cup {forecast_growth(add_forecasted(NewFinancialItem(NameD, "RESULT",
                                                          << <<YearLabel(Year0), 100>> >>, <<>>),
                                         YearLabel(Year0 + 2), 300),
                          Some(1), <<>>, 1, "Annual").item}

ValuationInit ==
    /\ \E base \in BaseItems, st \in {"income_statement", "cash_flow_statement", "kpi_statement"} :
         company = [EmptyCompany EXCEPT ![st] = add_item(EmptyStatement, base)]
    /\ \E r \in DiscountRates, g \in TerminalGrowthRates, payout \in PayoutRatios,
          n \in 1..MaxPeriods, shares \in SharesOutstanding, price \in MarketPrices :
         model = [periods |-> n, frequency |-> "Annual", shares_outstanding |-> shares,
                  market_price |-> price, payout_ratio |-> payout,
                  base_item_for_dividends |-> NameD, terminal_growth_rate |-> g,
                  discount_rate |-> r]
    /\ start = company
    /\ ident = [name |-> "TestCo", ticker |-> "TCO", currency |-> "USD", description |-> None]
    /\ company_kpis = EmptyStatement
    /\ call = [op |-> "none", scenarios |-> 0]
    /\ doc = None
    /\ loaded = None
    /\ model_kpis = EmptyStatement
    /\ kerr = ""
    /\ rules = <<>>
    /\ pc = "idle"
    /\ idx = 1
    /\ applied = <<>>
    /\ trace = <<>>
    /\ ferr = ""
    /\ ItemIdle

\* DividendDiscountModel(company, base, discount_rate, payout_ratio, terminal_growth_rate,
\* periods).calculate_value()
DdmCalculateValue ==
    /\ LET ddm == [base_item_for_dividends |-> model.base_item_for_dividends,
                   discount_rate |-> model.discount_rate, payout_ratio |-> model.payout_ratio,
                   terminal_growth_rate |-> model.terminal_growth_rate,
                   periods |-> model.periods]
           res == calculate_value(company, ddm)
       IN  call' = [op |-> "calculate_value", scenarios |-> call.scenarios,
                    result |-> IF res.err = "" THEN Some(res.value) ELSE None,
                    err |-> res.err]
    /\ UNCHANGED <<ident, company_kpis, doc, loaded, modelVars, itemVars>>

\* ScenarioModel(company, ...).run_scenario(assumptions, label)
RunScenario ==
    /\ call.scenarios < MaxOps
    /\ \E assumptions \in AssumptionSets, label \in Labels :
         LET res == run_scenario(company, model, assumptions, label)
         IN  /\ company' = res.base
             /\ call' = [op |-> "run_scenario", scenarios |-> call.scenarios + 1,
                         assumptions |-> assumptions, label |-> label,
                         result |-> res.result, err |-> res.err]
    /\ UNCHANGED <<ident, company_kpis, doc, loaded, model, model_kpis, kerr, rules, pc, idx,
                   applied, trace, start, ferr, itemVars>>

ValuationNext == DdmCalculateValue \/ RunScenario

ValuationSpec == ValuationInit /\ [][ValuationNext]_vars

----------------------------------------------------------------------------
(* Properties of the valuation *)

\* sum over i = 1..n of payout * values[i][2] / (1 + r)^i
RECURSIVE DiscountedDividends(_, _, _, _)
DiscountedDividends(values, payout, r, n) ==
    IF n = 0 THEN <<0, 1>>
    ELSE RatAdd(DiscountedDividends(values, payout, r, n - 1),
                RatDiv(RatMul(payout, Rat(values[n][2], 1)), RatPow(RatAdd(<<1, 1>>, r), n)))

\* The two-stage value of the forecasted map `values` over the horizon n.
TwoStageValue(values, payout, r, g, n) ==
    RatAdd(DiscountedDividends(values, payout, r, n),
           RatDiv(RatDiv(RatMul(RatMul(payout, Rat(values[n][2], 1)), RatAdd(<<1, 1>>, g)),
                         RatSub(r, g)),
                  RatPow(RatAdd(<<1, 1>>, r), n)))

\* The dividend base is held by a statement the valuation reads, with at least N
\* forecasted periods, and r # g.
ValuationDefined(c) ==
    /\ DdmFindItem(c, model.base_item_for_dividends) # None
    /\ Len(Resolved(c, model.base_item_for_dividends).forecasted) >= model.periods
    /\ model.periods >= 1
    /\ model.discount_rate # model.terminal_growth_rate

\* C17: calculate_value, for a base item with at least N forecasted periods (N the
\* horizon, r # g), returns the sum over i = 1..N of d_i / (1+r)^i plus
\* [d_N * (1+g) / (r - g)] / (1+r)^N, d_i being the payout ratio times the i-th
\* forecasted base value in the forecasted map's order.
C17_TwoStageDividendDiscount ==
    (call.op = "calculate_value" /\ ValuationDefined(company)) =>
        /\ call.err = ""
        /\ call.result = Some(TwoStageValue(Resolved(company, NameD).forecasted,
                                            model.payout_ratio, model.discount_rate,
                                            model.terminal_growth_rate, model.periods))

\* C17 witness: N = 1, D = 110 / 2 = 55, r = 1/10, g = 1/50:
\* 55 / 1.1 + (55 * 1.02 / 0.08) / 1.1 = 50 + 637.5 = 687.5
C17_Witness ==
    /\ call.op = "calculate_value"
    /\ model.periods = 1
    /\ model.payout_ratio = <<1, 2>>
    /\ model.discount_rate = <<1, 10>>
    /\ model.terminal_growth_rate = <<1, 50>>
    /\ Len(company.income_statement[NameD].forecasted) = 2
    /\ call.result = Some(<<1375, 2>>)

\* C18: run_scenario never changes the base Company (every statement holds the same
\* line items with the same kind, historical and forecasted maps as before the calls),
\* and the outcome of a scenario is the outcome the same scenario has on the company
\* as it was before any scenario ran.
C18_ScenarioLeavesBaseCompany ==
    /\ company = start
    /\ call.op = "run_scenario" =>
         LET first == run_scenario(start, model, call.assumptions, call.label)
         IN  /\ call.result = first.result
             /\ call.err = first.err
             /\ ValuationDefined(start) /\ model.shares_outstanding[1] # 0 =>
                  /\ call.err = ""
                  /\ call.result[1].Scenario = call.label
                  /\ call.result[1].IntrinsicValueTotal
                       = TwoStageValue(Resolved(start, NameD).forecasted, model.payout_ratio,
                                       model.discount_rate, model.terminal_growth_rate,
                                       model.periods)

\* C18 witness: a second scenario, with the assumption growth = 1, has returned a
\* valuation, and the base still holds D with the one forecasted period it had.
C18_Witness ==
    /\ call.op = "run_scenario"
    /\ call.scenarios = 2
    /\ call.assumptions = [growth |-> 1]
    /\ call.err = ""
    /\ call.result # None
    /\ NameD \in DOMAIN company.income_statement
    /\ Len(company.income_statement[NameD].forecasted) = 1

----------------------------------------------------------------------------
(* The persistence specification: a Company is filled, saved with save_to_json *)
(* and loaded with load_from_json into a Company constructed for the purpose.   *)

NameA == <<"A">>
NameO == <<"O">>

\* The items add_item is called with, by statement.  The second R is one whose
\* forecasted map holds a later year before an earlier one (add_forecasted, then
\* forecast_growth); N I is a name that sanitization changes.
JsonItems(st) ==
    CASE st = "income_statement" ->
           {NewFinancialItem(NameR, "REVENUE", << <<YearLabel(Year0), 1000>> >>, <<>>),
            forecast_growth(add_forecasted(NewFinancialItem(NameR, "REVENUE",
                                                            << <<YearLabel(Year0), 100>> >>,
                                                            <<>>),
                                           YearLabel(Year0 + 2), 300),
                            Some(1), <<>>, 1, "Annual").item,
            NewFinancialItem(NameNI, "RESULT",
                             << <<YearLabel(Year0 - 1), 5>>, <<YearLabel(Year0), 0>> >>,
                             << <<YearLabel(Year0 + 1), 7>> >>),
            NewFinancialItem(NameNI, "EXPENSE", <<>>, <<>>)}
      [] st = "balance_sheet" ->
           {NewFinancialItem(NameA, "ASSET", << <<YearLabel(Year0), 50>> >>,
                             << <<YearLabel(Year0 + 1), 60>> >>)}
      [] st = "cash_flow_statement" ->
           {NewFinancialItem(NameQ, "CASH_FLOW_OPERATING", QuarterlySeries, <<>>)}
      [] st = "kpi_statement" ->
           {NewFinancialItem(NameY, "RATIO", << <<YearLabel(Year0), 3>> >>, <<>>)}
      [] OTHER ->
           {NewFinancialItem(NameO, "OTHER", <<>>, << <<YearLabel(Year0 + 1), 9>> >>)}

\* Company("Fresh", "FR", "EUR"): the company load_from_json is called on
FreshCompany ==
    [ident |-> [name |-> "Fresh", ticker |-> "FR", currency |-> "EUR", description |-> None],
     statements |-> EmptyCompany]

JsonInit ==
    /\ \E filled \in BOOLEAN :
         company = IF filled
                   THEN [st \in DOMAIN EmptyCompany |->
                           IF st = "income_statement" \/ st = "balance_sheet"
                           THEN EmptyStatement
                           ELSE add_item(EmptyStatement, CHOOSE it \in JsonItems(st) : TRUE)]
                   ELSE EmptyCompany
    /\ \E d \in {None, Some("A test company")} :
         ident = [name |-> "TestCo", ticker |-> "TCO", currency |-> "USD", description |-> d]
    /\ company_kpis = EmptyStatement
    /\ call = NoServiceCall
    /\ doc = None
    /\ loaded = None
    /\ model = [periods |-> 0, frequency |-> "Annual"]
    /\ RunIdle
    /\ ItemIdle

\* company.<statement>.add_item(item)
JsonAddItem ==
    /\ \E st \in {"income_statement", "balance_sheet"} :
         \E it \in JsonItems(st) :
           /\ company' = [company EXCEPT ![st] = add_item(@, it)]
           /\ call' = [op |-> "add_item", statement |-> st, name |-> it.name]
    /\ UNCHANGED <<ident, company_kpis, doc, loaded, model, model_kpis, kerr, rules, pc, idx,
                   applied, trace, start, ferr, itemVars>>

\* company.save_to_json(path); nothing has been loaded from the new document yet
JsonSave ==
    /\ doc' = Some(to_dict(ident, company))
    /\ start' = company
    /\ loaded' = None
    /\ call' = [op |-> "save_to_json"]
    /\ UNCHANGED <<ident, company_kpis, company, model, model_kpis, kerr, rules, pc, idx,
                   applied, trace, ferr, itemVars>>

\* Company("Fresh", "FR", "EUR").load_from_json(path)
JsonLoad ==
    /\ doc # None
    /\ loaded' = Some(load_from_dict(FreshCompany, doc[1]))
    /\ call' = [op |-> "load_from_json"]
    /\ UNCHANGED <<ident, company_kpis, doc, modelVars, itemVars>>

JsonNext == JsonAddItem \/ JsonSave \/ JsonLoad

JsonSpec == JsonInit /\ [][JsonNext]_vars

----------------------------------------------------------------------------
(* Properties of the persistence *)

\* The maps a and b have the same keys with the same values.
SameMap(a, b) == Len(a) = Len(b) /\ {a[i] : i \in DOMAIN a} = {b[i] : i \in DOMAIN b}

\* Every line item the saved company held under the statement st is held by the
\* loaded company under st, with its name, kind, historical and forecasted maps.
StatementRestored(st) ==
    \A n \in DOMAIN start[st] :
       /\ n \in DOMAIN loaded[1].statements[st]
       /\ loaded[1].statements[st][n].name = start[st][n].name
       /\ loaded[1].statements[st][n].item_type = start[st][n].item_type
       /\ SameMap(loaded[1].statements[st][n].historical, start[st][n].historical)
       /\ SameMap(loaded[1].statements[st][n].forecasted, start[st][n].forecasted)

\* C19: save then load into a fresh Company preserves name, ticker, currency and, for
\* every income-statement line item, its name, kind, historical map and forecasted map
\* (same keys and values), whether the item was named by a sanitized identifier or not.
C19_SaveLoadPreservesIncomeStatement ==
    loaded # None =>
        /\ loaded[1].err = ""
        /\ loaded[1].ident.name = ident.name
        /\ loaded[1].ident.ticker = ident.ticker
        /\ loaded[1].ident.currency = ident.currency
        /\ StatementRestored("income_statement")
        /\ DOMAIN loaded[1].statements.income_statement = DOMAIN start.income_statement

\* C19 witness: the loaded company holds N_I, added as "N I", with its forecasted
\* value, and R, whose forecasted map the saved company held with 2025 before 2024.
C19_Witness ==
    /\ loaded # None
    /\ NameN_I \in DOMAIN loaded[1].statements.income_statement
    /\ loaded[1].statements.income_statement[NameN_I].forecasted
         = << <<YearLabel(Year0 + 1), 7>> >>
    /\ NameR \in DOMAIN start.income_statement
    /\ Len(start.income_statement[NameR].forecasted) = 2
    /\ start.income_statement[NameR].forecasted # DictSorted(start.income_statement[NameR].forecasted)
    /\ loaded[1].ident.name = "TestCo"

\* C20: loading a saved document reconstructs the line items of all five statements:
\* every item saved under balance_sheet, cash_flow_statement, kpi_statement and
\* other_financials_statement is present after load in the corresponding statement
\* with its kind and its historical and forecasted maps.
C20_LoadRestoresAllStatements ==
    loaded # None =>
        \A st \in {"balance_sheet", "cash_flow_statement", "kpi_statement",
                   "other_financials_statement"} : StatementRestored(st)

----------------------------------------------------------------------------
(* The forecaster specification: StatisticalForecaster(item.historical) and   *)
(* its forecast_normal, called with every combination of arguments.            *)

\* The historical series: empty, annual, quarterly, and one with both kinds of label.
SeriesInputs ==
    {<<>>,
     << <<YearLabel(Year0), 7>> >>,
     << <<YearLabel(Year0 - 2), 1>>, <<YearLabel(Year0 - 1), 2>>, <<YearLabel(Year0), 2>> >>,
     << <<YearLabel(Year0 - 2), 1>>, <<YearLabel(Year0 - 1), 1>>, <<YearLabel(Year0), 2>> >>,
     << <<YearLabel(Year0 - 1), -1>>, <<YearLabel(Year0), 3>> >>,
     << <<QuarterLabel(Year0, 1), 5>> >>,
     << <<QuarterLabel(Year0, 3), 1>>, <<QuarterLabel(Year0, 4), 3>> >>,
     << <<QuarterLabel(Year0, 2), 2>>, <<QuarterLabel(Year0, 3), 2>>,
        <<QuarterLabel(Year0, 4), 3>> >>,
     << <<YearLabel(Year0), 2>>, <<QuarterLabel(Year0, 2), 2>> >>}

Modes == {"mean", "random", "percentile", "median"}
Frequencies == {"year", "quarter", "month"}

\* What np.random.normal returns, step by step (mode "random" alone calls it; the
\* multiplier is at its default of 1 unless the mode is "percentile", which alone reads it).
Draws ==
    {[i \in 1..(MaxPeriods + 1) |-> 5],
     [i \in 1..(MaxPeriods + 1) |-> IF i % 2 = 1 THEN -3 ELSE 8]}

NormalInit ==
    /\ \E h \in SeriesInputs : item = NewFinancialItem(NameT, "REVENUE", h, <<>>)
    /\ ret = None
    /\ last = NoCall
    /\ err = ""
    /\ steps = 0
    /\ ModelIdle
    /\ ServiceIdle

\* StatisticalForecaster(item.historical).forecast_normal(periods, mode, std_multiplier,
\* trend, frequency)
NormalForecast ==
    /\ \E periods \in 0..(MaxPeriods + 1), mode \in Modes, trend \in {0, 1},
          frequency \in Frequencies :
       \E std_multiplier \in (IF mode = "percentile" THEN {1, 2} ELSE {1}),
          draws \in (IF mode = "random" THEN Draws ELSE {<<>>}) :
         LET res == forecast_normal(item.historical, periods, mode, std_multiplier, trend,
                                    frequency, draws)
         IN  call' = [op |-> "forecast_normal", periods |-> periods, mode |-> mode,
                      std_multiplier |-> std_multiplier, trend |-> trend,
                      frequency |-> frequency, draws |-> draws,
                      result |-> res.forecast, err |-> res.err]
    /\ UNCHANGED <<ident, company_kpis, doc, loaded, modelVars, itemVars>>

NormalNext == NormalForecast

NormalSpec == NormalInit /\ [][NormalNext]_vars

----------------------------------------------------------------------------
(* Properties of forecast_normal *)

\* The frequency is one the series can be continued with: "year", or "quarter" on a
\* series that ends with a quarterly label.
FrequencyFits ==
    \/ call.frequency = "year"
    \/ call.frequency = "quarter" /\ HasQ(LastKey(item.historical))

\* C21: forecast_normal with mode = mean, trend = 0 and periods = N on a non-empty
\* series with mean M returns exactly N entries, each equal to M rounded to 2 decimals.
C21_MeanModeRepeatsRoundedMean ==
    (/\ call.op = "forecast_normal"
     /\ item.historical # <<>>
     /\ call.mode = "mean"
     /\ call.trend = 0
     /\ FrequencyFits) =>
        /\ call.err = ""
        /\ Len(call.result) = call.periods
        /\ Cardinality(Keys(call.result)) = call.periods
        /\ \A i \in DOMAIN call.result :
              call.result[i][2] = RoundHalfEven(SumValues(item.historical),
                                                Len(item.historical))

\* C21 witness: the series 0.01, 0.02, 0.02 (mean 0.01666...) forecast for 3 years
\* gives 0.02 three times.
C21_Witness ==
    /\ call.op = "forecast_normal"
    /\ item.historical = << <<YearLabel(Year0 - 2), 1>>, <<YearLabel(Year0 - 1), 2>>,
                            <<YearLabel(Year0), 2>> >>
    /\ call.mode = "mean"
    /\ call.trend = 0
    /\ call.periods = 3
    /\ call.result = << <<YearLabel(Year0 + 1), 2>>, <<YearLabel(Year0 + 2), 2>>,
                        <<YearLabel(Year0 + 3), 2>> >>

\* C22: for a non-empty series and a valid mode, forecast_normal with periods = N
\* returns exactly N entries whose keys continue the series' own periodicity from its
\* last period (annual: the next N years; quarterly: the next N quarters, Q4 rolling
\* over to Q1 of the next year), and no returned key is a key of the series.
C22_KeysContinueSeriesPeriodicity ==
    (/\ call.op = "forecast_normal"
     /\ item.historical # <<>>
     /\ call.mode \in {"mean", "random", "percentile"}
     /\ call.frequency \in {"year", "quarter"}) =>
        /\ call.err = ""
        /\ Len(call.result) = call.periods
        /\ Keys(call.result) = {StepLabel(LastKey(item.historical), i) : i \in 1..call.periods}
        /\ Keys(call.result) \cap Keys(item.historical) = {}

----------------------------------------------------------------------------
(* Properties of the FinancialItem specification: partial forecasts and the    *)
(* order of the maps                                                            *)

\* The first step of the call being made whose label the schedule does not have.
FirstUncovered ==
    CHOOSE j \in 1..last'.periods :
       /\ GrowthLabel(j) \notin Keys(last'.schedule)
       /\ \A k \in 1..(j - 1) : GrowthLabel(k) \in Keys(last'.schedule)

\* The anchor value compounded with the scheduled growths of steps 1..k.
RECURSIVE ScheduledValue(_)
ScheduledValue(k) ==
    IF k = 0 THEN DictGet(item.historical, LastKey(item.historical))[1]
    ELSE ScheduledValue(k - 1) * (1 + DictGet(last'.schedule, GrowthLabel(k))[1])

\* C25: when forecast_growth is called with no flat rate and a schedule that covers
\* steps 1..j-1 but not step j (j <= periods), the call fails at step j with the
\* missing-growth error, the forecasted values of steps 1..j-1 stay written with
\* their compounded values, no value of a step >= j is written, and the historical
\* map is unchanged.
C25_PartialForecastStaysWritten ==
    [][(/\ GrowthCallStep
        /\ last'.rate = None
        /\ \E j \in 1..last'.periods : GrowthLabel(j) \notin Keys(last'.schedule)) =>
         LET Written == {GrowthLabel(k) : k \in 1..(FirstUncovered - 1)}
         IN  /\ err' = "ValueError: No growth specified."
             /\ \A k \in 1..(FirstUncovered - 1) :
                  DictGet(item'.forecasted, GrowthLabel(k)) = Some(ScheduledValue(k))
             /\ Keys(item'.forecasted) = Keys(item.forecasted) \cup Written
             /\ \A p \in Keys(item.forecasted) \ Written :
                  DictGet(item'.forecasted, p) = DictGet(item.forecasted, p)
             /\ item'.historical = item.historical
      ]_vars

\* C25 witness: a schedule for the first year only, two periods asked: the call has
\* failed, the first year is written (2 * (1 + 0)) and the second is not.
C25_Witness ==
    /\ last.op = "forecast_growth"
    /\ last.frequency = "Annual"
    /\ last.rate = None
    /\ last.schedule = << <<YearLabel(Year0 + 1), 0>> >>
    /\ last.periods = 2
    /\ err = "ValueError: No growth specified."
    /\ item.historical = << <<YearLabel(Year0), 2>> >>
    /\ item.forecasted = << <<YearLabel(Year0 + 1), 2>> >>

\* The keys of the map d are in ascending order.
IsAscending(d) == \A i \in DOMAIN d : \A j \in DOMAIN d : i < j => d[i][1] < d[j][1]

\* C26: in every state reachable by constructing a FinancialItem and calling
\* add_historical, add_forecasted and forecast_growth in any order, the historical map
\* and the forecasted map iterate in ascending order of period label.
C26_MapsIterateAscending ==
    IsAscending(item.historical) /\ IsAscending(item.forecasted)

----------------------------------------------------------------------------
(* Properties of the valuation: margin of safety, assumption sets, short       *)
(* forecasts                                                                    *)

\* C24: run_scenario returns margin of safety = (intrinsic value per share - market
\* price) / market price whenever a market price was supplied to the ScenarioModel,
\* and no margin of safety only when no market price was supplied; intrinsic value
\* per share = intrinsic value total / shares outstanding.
C24_MarginOfSafetyWheneverPriced ==
    (call.op = "run_scenario" /\ call.err = "") =>
        /\ call.result[1].IntrinsicValuePerShare
             = RatDiv(call.result[1].IntrinsicValueTotal, model.shares_outstanding)
        /\ call.result[1].MarginOfSafety = None <=> model.market_price = None
        /\ (model.market_price # None /\ model.market_price[1][1] # 0) =>
              call.result[1].MarginOfSafety
                = Some(RatDiv(RatSub(call.result[1].IntrinsicValuePerShare,
                                     model.market_price[1]),
                              model.market_price[1]))

\* The attributes of the DividendDiscountModel a ScenarioModel builds.
ScenarioDdm ==
    [base_item_for_dividends |-> model.base_item_for_dividends,
     discount_rate |-> model.discount_rate, payout_ratio |-> model.payout_ratio,
     terminal_growth_rate |-> model.terminal_growth_rate, periods |-> model.periods]

C30_ShortForecastStillValued ==
    (/\ call.op = "calculate_value"
     /\ DdmFindItem(company, NameD) # None
     /\ model.discount_rate # model.terminal_growth_rate) =>
        LET values == Resolved(company, NameD).forecasted
            k == IF Len(values) < model.periods THEN Len(values) ELSE model.periods
        IN  /\ call.err = ""
            /\ k >= 1 =>
                 call.result
                   = Some(RatAdd(DiscountedDividends(values, model.payout_ratio,
                                                     model.discount_rate, k),
                                 RatDiv(RatDiv(RatMul(RatMul(model.payout_ratio,
                                                             Rat(values[k][2], 1)),
                                                      RatAdd(<<1, 1>>,
                                                             model.terminal_growth_rate)),
                                               RatSub(model.discount_rate,
                                                      model.terminal_growth_rate)),
                                        RatPow(RatAdd(<<1, 1>>, model.discount_rate),
                                               model.periods))))

----------------------------------------------------------------------------
(* The lookup specification: items are added to the statements of a Company   *)
(* under the names the caller writes, and looked up under those names through  *)
(* the statement, the ForecastModel, the KPIManager and the dividend model.    *)

\* The names callers write: an identifier, a name with a space, an identifier with
\* an underscore.
LookupNames == {NameR, NameNI, NameN_I}

Statements == {StatementOrder[i] : i \in DOMAIN StatementOrder}

\* The item FinancialItem(n, kind) with one forecasted value.
LookupItem(st, n) ==
    NewFinancialItem(n, ItemTypeOf(st), <<>>, << <<YearLabel(Year0 + 1), 100>> >>)

LookupInit ==
    /\ company = EmptyCompany
    /\ ident = [name |-> "TestCo", ticker |-> "TCO", currency |-> "USD", description |-> None]
    /\ company_kpis = EmptyStatement
    /\ call = [op |-> "none", added |-> {}]
    /\ doc = None
    /\ loaded = None
    /\ model = [periods |-> 1, frequency |-> "Annual"]
    /\ RunIdle
    /\ ItemIdle

\* company.<statement>.add_item(FinancialItem(n, kind)); call.added is the set of
\* <<statement, n>> added so far.
LookupAddItem ==
    /\ Cardinality(call.added) < MaxOps
    /\ \E st \in Statements, n \in LookupNames :
         /\ company' = [company EXCEPT ![st] = add_item(@, LookupItem(st, n))]
         /\ call' = [op |-> "add_item", statement |-> st, name |-> n,
                     added |-> call.added \cup {<<st, n>>}]
    /\ UNCHANGED <<ident, company_kpis, doc, loaded, model, model_kpis, kerr, rules, pc, idx,
                   applied, trace, start, ferr, itemVars>>

\* company.<statement>.get_item(n)
LookupGetItem ==
    /\ \E st \in Statements, n \in LookupNames :
         call' = [op |-> "get_item", statement |-> st, name |-> n,
                  found |-> get_item(company[st], n), added |-> call.added]
    /\ UNCHANGED <<ident, company_kpis, doc, loaded, modelVars, itemVars>>

\* ForecastModel(company, ...)._find_item(n) and company.kpi_manager._find_item(n)
LookupFindItem ==
    /\ \E via \in {"ForecastModel", "KPIManager"}, n \in LookupNames :
         LET loc == FindItem(company, n)
         IN  call' = [op |-> "_find_item", via |-> via, name |-> n,
                      found |-> IF loc = None THEN None ELSE Some(company[loc[1]][n]),
                      added |-> call.added]
    /\ UNCHANGED <<ident, company_kpis, doc, loaded, modelVars, itemVars>>

\* DividendDiscountModel(company, base_item_for_dividends = n)._find_item(n), the first
\* step of calculate_value
LookupDividendBase ==
    /\ \E n \in LookupNames :
         LET loc == DdmFindItem(company, n)
         IN  call' = [op |-> "_find_item", via |-> "DividendDiscountModel", name |-> n,
                      found |-> IF loc = None THEN None ELSE Some(company[loc[1]][n]),
                      added |-> call.added]
    /\ UNCHANGED <<ident, company_kpis, doc, loaded, modelVars, itemVars>>

LookupNext == LookupAddItem \/ LookupGetItem \/ LookupFindItem \/ LookupDividendBase

LookupSpec == LookupInit /\ [][LookupNext]_vars

----------------------------------------------------------------------------
(* Properties of the lookup *)

\* C27: for every name n, after statement.add_item(FinancialItem(n, kind)),
\* statement.get_item(n) returns that item, and the lookups by name that go through it
\* (ForecastModel._find_item, KPIManager._find_item, the dividend model's base) find
\* an item of that name; names that sanitization changes are included.
C27_AddedItemIsFoundByItsName ==
    /\ (call.op = "get_item" /\ <<call.statement, call.name>> \in call.added) =>
          call.found = Some(LookupItem(call.statement, call.name))
    /\ (call.op = "_find_item" /\ \E st \in Statements : <<st, call.name>> \in call.added) =>
          /\ call.found # None
          /\ call.found[1].name = sanitize_item_name(call.name)

----------------------------------------------------------------------------
(* The registry specification: a Company with its kpi_manager, and a          *)
(* ForecastModel bound to that company with the kpi_manager its constructor    *)
(* builds.                                                                     *)

\* company = Company(...); forecast_model = ForecastModel(company, assumptions)
RegistryInit ==
    /\ \E r \in {0, 900} :
         company =
           [EmptyCompany EXCEPT
              !.income_statement =
                 add_item(add_item(EmptyStatement,
                                   NewFinancialItem(NameR, "REVENUE",
                                                    << <<YearLabel(Year0 - 1), r>>,
                                                       <<YearLabel(Year0), 1000>> >>, <<>>)),
                          NewFinancialItem(NameN, "RESULT", << <<YearLabel(Year0), 200>> >>,
                                           <<>>))]
    /\ ident = [name |-> "TestCo", ticker |-> "TCO", currency |-> "USD", description |-> None]
    /\ company_kpis = EmptyStatement
    /\ call = NoServiceCall
    /\ doc = None
    /\ loaded = None
    /\ model = [periods |-> 1, frequency |-> "Annual"]
    /\ RunIdle
    /\ ItemIdle

\* forecast_model.add_kpi(name, formula)
RegistryModelAddKpi ==
    /\ \E name \in KpiNames, formula \in Formulas :
         LET res == kpi_add_kpi(model_kpis, name, formula)
         IN  /\ model_kpis' = res.kpis
             /\ kerr' = res.err
             /\ call' = [op |-> "add_kpi", on |-> "ForecastModel", name |-> name,
                         result |-> <<>>, err |-> res.err]
    /\ UNCHANGED <<ident, company_kpis, doc, loaded, company, model, rules, pc, idx, applied,
                   trace, start, ferr, itemVars>>

\* company.kpi_manager.add_kpi(name, formula)
RegistryCompanyAddKpi ==
    /\ \E name \in KpiNames, formula \in Formulas :
         LET res == kpi_add_kpi(company_kpis, name, formula)
         IN  /\ company_kpis' = res.kpis
             /\ call' = [op |-> "add_kpi", on |-> "Company", name |-> name,
                         result |-> <<>>, err |-> res.err]
    /\ UNCHANGED <<ident, doc, loaded, modelVars, itemVars>>

\* forecast_model.kpi_manager.calculate_kpi(name)
RegistryModelCalculate ==
    /\ \E name \in KpiNames :
         LET res == calculate_kpi(company, model_kpis, name)
         IN  call' = [op |-> "calculate_kpi", on |-> "ForecastModel", name |-> name,
                      result |-> res.result, err |-> res.err]
    /\ UNCHANGED <<ident, company_kpis, doc, loaded, modelVars, itemVars>>

\* company.kpi_manager.calculate_kpi(name)
RegistryCompanyCalculate ==
    /\ \E name \in KpiNames :
         LET res == calculate_kpi(company, company_kpis, name)
         IN  call' = [op |-> "calculate_kpi", on |-> "Company", name |-> name,
                      result |-> res.result, err |-> res.err]
    /\ UNCHANGED <<ident, company_kpis, doc, loaded, modelVars, itemVars>>

RegistryNext ==
    \/ RegistryModelAddKpi
    \/ RegistryCompanyAddKpi
    \/ RegistryModelCalculate
    \/ RegistryCompanyCalculate

RegistrySpec == RegistryInit /\ [][RegistryNext]_vars

----------------------------------------------------------------------------
(* Properties of the registries *)

\* C28: there is one KPI registry per Company: a KPI defined through
\* ForecastModel.add_kpi on a model bound to company C is defined in C's own registry
\* (C.kpi_manager.calculate_kpi does not fail as undefined, C.kpi_manager.add_kpi fails
\* as duplicate), and a KPI defined on C.kpi_manager is defined for the ForecastModel.
C28_OneRegistryPerCompany ==
    /\ (call.op = "calculate_kpi" /\ call.on = "Company" /\ call.name \in DOMAIN model_kpis) =>
          call.err # "ValueError: KPI is not defined"
    /\ (call.op = "add_kpi" /\ call.on = "Company" /\ call.name \in DOMAIN model_kpis) =>
          call.err = "ValueError: KPI already exists"
    /\ (call.op = "calculate_kpi" /\ call.on = "ForecastModel"
          /\ call.name \in DOMAIN company_kpis) =>
          call.err # "ValueError: KPI is not defined"

====
